---- MODULE Spec2Model ----
(***************************************************************************)
(* Model of the audio-chunking and translation pipeline of the extension:  *)
(*   AudioCapture      (modules/audioCapture.js, the segmenter)            *)
(*   ErrorHandler      (modules/errorHandler.js, retry with backoff)       *)
(*   BackgroundService (background.js, the coordinator)                    *)
(* Samples are tokens 1, 2, 3, ... naming positions of the microphone      *)
(* stream, so that duplication, loss and reordering of samples are         *)
(* visible; chunk and block sizes are scaled down.                         *)
(***************************************************************************)
EXTENDS Integers, Sequences, FiniteSets, TLC

VARIABLES
    captures,     \* the AudioCapture instances created so far, by instance id
    hist,         \* per instance: what the microphone delivered and what was emitted
    nextSample,   \* number of samples the microphone has delivered so far
    lastOp,       \* the last operation executed: [op, arg, threw]
    rw,           \* one retryWithBackoff call, run on its own
    fn,           \* one call of a pure function, run on its own: [name, args, result]
    health,       \* ErrorHandler.errorCounts, and what the health check has seen
    isActive,         \* BackgroundService.isActive
    currentSettings,  \* BackgroundService.currentSettings (Null until loaded)
    audioCapture,     \* BackgroundService.audioCapture: an instance id, or 0 for null
    storage,          \* the settings held by storageManager
    tasks,            \* the processAudioChunk invocations, in order of invocation
    sink,             \* the messages sent to the content script, in order
    ops,              \* the startTranslation / stopTranslation calls in flight
    responses,        \* the sendResponse answers, in order
    tts,              \* ElevenLabsTTS: [currentAudio, playing]
    failures          \* failures injected so far (client calls, playback)

segVars == <<captures, hist, nextSample>>
coordVars == <<isActive, currentSettings, audioCapture, storage, tasks, sink,
               ops, responses, tts, failures>>
vars == <<captures, hist, nextSample, lastOp, rw, fn, health, isActive, currentSettings,
          audioCapture, storage, tasks, sink, ops, responses, tts, failures>>

Null == [null |-> TRUE]

----------------------------------------------------------------------------
(* Bounds of the model *)

\* samples the microphone delivers in one behaviour
MaxSamples == 6
\* largest block one onaudioprocess event delivers
MaxBlock == 3
\* callbacks registered on one AudioCapture
MaxCallbacks == 2

(* AUDIO_CONFIG.SAMPLE_RATE * (AUDIO_CONFIG.CHUNK_DURATION / 1000), scaled:
   16000 * 2.5 = 40000 samples in the program *)
ChunkSize == 2

----------------------------------------------------------------------------
(* Sequences *)

Range(s) == {s[i] : i \in 1..Len(s)}

\* Array.prototype.slice(from) with a 0-based start index
SliceFrom(s, from) == SubSeq(s, from + 1, Len(s))

\* Array.prototype.slice(0, to) with a 0-based exclusive end index
SliceTo(s, to) == SubSeq(s, 1, IF to < Len(s) THEN to ELSE Len(s))

RECURSIVE Flatten(_)
Flatten(ss) == IF ss = <<>> THEN <<>> ELSE Head(ss) \o Flatten(Tail(ss))

----------------------------------------------------------------------------
(* AudioCapture *)

\* the kinds of chunk callback: the coordinator's async handler, and plain
\* synchronous callbacks that return or throw
CallbackKinds == {"pipeline", "ok", "throws"}

\* new AudioCapture()
NewAudioCapture ==
    [audioContext |-> FALSE, node |-> FALSE, isCapturing |-> FALSE,
     audioBuffer |-> <<>>, chunkCallbacks |-> <<>>]

\* the instance once initialize() has resolved: context and processor node exist
Initialized(c) == [c EXCEPT !.audioContext = TRUE, !.node = TRUE]

NewHist ==
    [runInput |-> <<>>, runEmitted |-> <<>>, allEmitted |-> <<>>,
     dropped |-> {}, emissions |-> <<>>]

\* the samples of the next block of n samples
Block(n) == [k \in 1..n |-> nextSample + k]

\* processAudioData without its isCapturing guard
AcceptsAlways(c) == TRUE

\* processAudioData's guard: samples are taken only while capturing
Accepts(c) == c.isCapturing

\* whether the buffer holds enough samples for a chunk
HasChunk(buf) == Len(buf) >= ChunkSize

\* the chunk sliced off the front of the buffer
ChunkOf(buf) == SliceTo(buf, ChunkSize)

\* the remainder sliced one sample too early
RestOfOverlapping(buf) == SliceFrom(buf, ChunkSize - 1)

\* what stays buffered after the chunk is sliced off
RestOf(buf) == SliceFrom(buf, ChunkSize)

\* convertToWAV: a 44-byte header and two bytes per sample, in order
convertToWAV(chunk) == [dataBytes |-> Len(chunk) * 2, samples |-> chunk]

\* forEach without the try/catch: the first callback that throws ends the loop
InvokedCallbacksUncaught(cbs) ==
    LET throwers == {k \in 1..Len(cbs) : cbs[k] = "throws"}
        last == IF throwers = {} THEN Len(cbs)
                ELSE CHOOSE k \in throwers : \A j \in throwers : k <= j
    IN [k \in 1..last |-> k]

\* chunkCallbacks.forEach with a try/catch around each call: the indexes of
\* the callbacks that get called, in order
InvokedCallbacks(cbs) == [k \in 1..Len(cbs) |-> k]

----------------------------------------------------------------------------
(* ErrorHandler: retry with exponential backoff *)

\* RETRY_CONFIG
MAX_RETRIES == 3
INITIAL_DELAY == 1000
MAX_DELAY == 10000
BACKOFF_MULTIPLIER == 2

\* largest maxRetries argument passed to retryWithBackoff when run on its own
MaxRetriesArg == 5

\* the HTTP statuses a failing backend call answers with; 0 is a fetch that
\* rejects (no answer at all)
ErrStatuses == {401, 429, 500, 0}

RECURSIVE Pow(_, _)
Pow(b, e) == IF e = 0 THEN 1 ELSE b * Pow(b, e - 1)

Min(a, b) == IF a <= b THEN a ELSE b

\* calculateDelay without the Math.min cap
calculateDelayUncapped(attempt) ==
    INITIAL_DELAY * Pow(BACKOFF_MULTIPLIER, attempt)

\* calculateDelay(attempt)
calculateDelay(attempt) ==
    Min(INITIAL_DELAY * Pow(BACKOFF_MULTIPLIER, attempt), MAX_DELAY)

\* the last-attempt test off by one
RetryExhaustedEarly(attempt, maxRetries) == attempt + 1 = maxRetries

\* the test `attempt === maxRetries` in the catch block
RetryExhausted(attempt, maxRetries) == attempt = maxRetries

\* a retryWithBackoff call that has not started
RetryIdle ==
    [status |-> "idle", attempt |-> 0, maxRetries |-> 0, calls |-> 0,
     delays |-> <<>>, lastError |-> Null, thrown |-> Null, result |-> Null]

\* retryWithBackoff entered with one retry more than it was given
RetryStartOneMore(maxRetries) ==
    [RetryIdle EXCEPT !.status = "calling", !.maxRetries = maxRetries + 1,
                      !.calls = 1]

\* retryWithBackoff entered: attempt = 0 and fn() is called
RetryStart(maxRetries) ==
    [RetryIdle EXCEPT !.status = "calling", !.maxRetries = maxRetries,
                      !.calls = 1]

\* fn() resolved with v: return it
RetryResolve(r, v) == [r EXCEPT !.status = "returned", !.result = v]

\* fn() rejected with e: rethrow on the last attempt, else sleep
RetryReject(r, e) ==
    IF RetryExhausted(r.attempt, r.maxRetries)
    THEN [r EXCEPT !.status = "threw", !.lastError = e, !.thrown = e]
    ELSE [r EXCEPT !.status = "sleeping", !.lastError = e,
                   !.delays = Append(@, calculateDelay(r.attempt))]

\* a wake that invokes fn twice
RetryWakeTwice(r) ==
    IF r.attempt + 1 <= r.maxRetries
    THEN [r EXCEPT !.status = "calling", !.attempt = @ + 1, !.calls = @ + 2]
    ELSE [r EXCEPT !.status = "threw", !.attempt = @ + 1, !.thrown = r.lastError]

\* the sleep is over: attempt++ and, while attempt <= maxRetries, fn() again;
\* past the loop, throw lastError
RetryWake(r) ==
    IF r.attempt + 1 <= r.maxRetries
    THEN [r EXCEPT !.status = "calling", !.attempt = @ + 1, !.calls = @ + 1]
    ELSE [r EXCEPT !.status = "threw", !.attempt = @ + 1, !.thrown = r.lastError]

\* the error object the k-th invocation of an operation throws
ErrorOf(status, k) == [status |-> status, id |-> k]

\* the keys of errorCounts: `${errorType}-${context}`
ErrorKeys == {"audio_error-health_check"}

(* the count above which trackError and isFeatureDisabled disable a feature,
   scaled: `count > 5` in the program *)
ERROR_LIMIT == 1

\* ErrorHandler.trackError: the counts after the call. No handler of
\* BackgroundService calls it
trackError(counts, key) == [counts EXCEPT ![key] = @ + 1]

\* ErrorHandler.trackError: what the call returns; `count` is the count
\* read before the call stores count + 1
trackErrorReturns(counts, key) == ~(counts[key] > ERROR_LIMIT)

\* ErrorHandler.resetErrorCount: the key is deleted, and a missing key
\* reads as 0
resetErrorCount(counts, key) == [counts EXCEPT ![key] = 0]

\* ErrorHandler.isFeatureDisabled
isFeatureDisabled(counts, key) == counts[key] > ERROR_LIMIT

\* new ErrorHandler(): errorCounts is empty. audioErrors is the number of
\* audio-device errors in a row so far, checks the number of health checks
\* run, checked tells whether one of them ran with audioErrors past the
\* limit, restarts counts the restarts that ran to their end and restart
\* describes the last of them
NewHealth ==
    [errorCounts |-> [k \in ErrorKeys |-> 0], audioErrors |-> 0,
     checked |-> FALSE, checks |-> 0, restarts |-> 0, restart |-> Null]

\* no pure function has been called
NoCall == [name |-> "none", args |-> <<>>, result |-> Null]

----------------------------------------------------------------------------
(* Text: a string is the sequence of its code points *)

\* what String.prototype.trim removes and the regular expression \s matches
IsWhiteSpace(c) ==
    \/ c \in 9..13
    \/ c \in {32, 160, 5760, 8232, 8233, 8239, 8287, 12288, 65279}
    \/ c \in 8192..8202

RECURSIVE TrimStart(_)
TrimStart(t) ==
    IF t # <<>> /\ IsWhiteSpace(Head(t)) THEN TrimStart(Tail(t)) ELSE t

RECURSIVE TrimEnd(_)
TrimEnd(t) ==
    IF t # <<>> /\ IsWhiteSpace(t[Len(t)])
    THEN TrimEnd(SubSeq(t, 1, Len(t) - 1))
    ELSE t

\* String.prototype.trim
Trim(t) == TrimEnd(TrimStart(t))

\* the blank test without its trim: !text
IsBlankUntrimmed(t) == t = <<>>

\* !text || text.trim().length === 0
IsBlank(t) == t = <<>> \/ Len(Trim(t)) = 0

IsArabicScript(c) ==
    \/ c \in 1536..1791
    \/ c \in 1872..1919
    \/ c \in 2208..2303
    \/ c \in 64336..65023
    \/ c \in 65136..65279

IsPersianSpecific(c) ==
    \/ c \in {1705, 1711, 1670, 1688, 1740, 1696, 1726, 1729, 1746}
    \/ c \in 1748..1785

IsHebrew(c) == c \in 1424..1535 \/ c \in {8207, 8206}

IsKurdishSpecific(c) == c \in 1717..1775

IsTurkishSpecific(c) ==
    c \in {231, 287, 305, 246, 351, 252, 199, 286, 73, 304, 214, 350, 220}

\* WhisperAPI.detectLanguage
detectLanguage(t) ==
    IF t = <<>> THEN "en"
    ELSE IF (\E k \in 1..Len(t) : IsArabicScript(t[k]))
    THEN IF (\E k \in 1..Len(t) : IsPersianSpecific(t[k])) THEN "fa"
         ELSE IF (\E k \in 1..Len(t) : IsHebrew(t[k])) THEN "he"
         ELSE IF (\E k \in 1..Len(t) : IsKurdishSpecific(t[k])) THEN "ku"
         ELSE "ar"
    ELSE IF (\E k \in 1..Len(t) : IsTurkishSpecific(t[k])) THEN "tr"
    ELSE "en"

\* the class of /^[a-zA-Z\s.,!?;:'"()-]+$/
IsEnglishPatternChar(c) ==
    \/ c \in 97..122
    \/ c \in 65..90
    \/ IsWhiteSpace(c)
    \/ c \in {46, 44, 33, 63, 59, 58, 39, 34, 40, 41, 45}

englishPattern(t) == t # <<>> /\ \A k \in 1..Len(t) : IsEnglishPatternChar(t[k])

\* TranslationAPI.needsTranslation
needsTranslation(t, targetLanguage) ==
    IF IsBlank(t) THEN FALSE
    ELSE IF targetLanguage = "en" THEN ~englishPattern(t)
    ELSE TRUE

\* the resolver without its English branch
determineTranslationDirectionOneWay(detectedLanguage, settings) ==
    IF detectedLanguage \in {"ar", "fa", "tr", "he", "ku"}
    THEN [source |-> detectedLanguage, target |-> "en"]
    ELSE [source |-> settings.sourceLanguage, target |-> settings.targetLanguage]

\* BackgroundService.determineTranslationDirection
determineTranslationDirection(detectedLanguage, settings) ==
    IF detectedLanguage \in {"ar", "fa", "tr", "he", "ku"}
    THEN [source |-> detectedLanguage, target |-> "en"]
    ELSE IF detectedLanguage = "en"
    THEN [source |-> "en", target |-> settings.sourceLanguage]
    ELSE [source |-> settings.sourceLanguage, target |-> settings.targetLanguage]

\* MOCK_RESPONSES.transcription
MockTranscriptions ==
    [ar |-> <<1605, 1585, 1581, 1576, 1575, 1548, 32, 1603, 1610, 1601, 32,
              1581, 1575, 1604, 1603, 1567>>,
     fa |-> <<1587, 1604, 1575, 1605, 1548, 32, 1670, 1591, 1608, 1585, 32,
              1607, 1587, 1578, 1740, 1583, 1567>>,
     tr |-> <<77, 101, 114, 104, 97, 98, 97, 44, 32, 110, 97, 115, 305, 108,
              115, 305, 110, 63>>,
     he |-> <<1513, 1500, 1493, 1501, 44, 32, 1488, 1497, 1498, 32, 1488,
              1514, 1492, 63>>,
     ku |-> <<1587, 1717, 1575, 1608, 1548, 32, 1670, 1734, 1606, 1740, 1578,
              1567>>]

\* "Hello, how are you?"
HelloHowAreYou == <<72, 101, 108, 108, 111, 44, 32, 104, 111, 119, 32, 97, 114, 101, 32, 121, 111, 117, 63>>

\* a mock transcription without the fallback to the Arabic entry
getMockTranscriptionNoFallback(language) ==
    [text |-> IF language \in DOMAIN MockTranscriptions
              THEN MockTranscriptions[language]
              ELSE <<>>,
     language |-> language,
     confidence |-> 95]

\* WhisperAPI.getMockTranscription
getMockTranscription(language) ==
    [text |-> IF language \in DOMAIN MockTranscriptions
              THEN MockTranscriptions[language]
              ELSE MockTranscriptions["ar"],
     language |-> language,
     confidence |-> 95]

\* TranslationAPI.getMockTranslation: every entry of MOCK_RESPONSES.translation
\* and the fallback are the same sentence
getMockTranslation(t, sourceLanguage, targetLanguage) ==
    [translatedText |-> HelloHowAreYou, confidence |-> 90,
     sourceLanguage |-> sourceLanguage, targetLanguage |-> targetLanguage]

----------------------------------------------------------------------------
(* Errors and their classification *)

\* the substrings ErrorHandler.handleApiError looks for that the message of
\* an error contains. A client wraps a backend answer as "<stage> failed:
\* Backend API error: <status> - <error>", and a rejected fetch as "<stage>
\* failed: Failed to fetch"; playAudio wraps a decoding failure as "Audio
\* playback failed: ..."
MessageMarkers(e) ==
    IF e.status = 401 THEN {"401"}
    ELSE IF e.status = 429 THEN {"429"}
    ELSE IF e.status = 0 THEN {"fetch"}
    ELSE {}

\* error.message of the error a client or playAudio throws: the client's
\* wrapping of the backend's answer, of a rejected fetch, or of a decoding
\* failure
RawMessage(e) ==
    CASE e.status = 401 ->
           "Transcription failed: Backend API error: 401 - Invalid API key"
      [] e.status = 429 ->
           "Transcription failed: Backend API error: 429 - Rate limit exceeded"
      [] e.status = 500 ->
           "Transcription failed: Backend API error: 500 - Transcription failed"
      [] e.status = 0 -> "Transcription failed: Failed to fetch"
      [] OTHER -> "Audio playback failed: Unable to decode audio data"

\* the substrings handleApiError looks for
ApiMarkers == {"401", "Unauthorized", "429", "rate limit", "network", "fetch"}

\* the tests of handleApiError in another order: rate limit before auth
ApiErrorTypeRateFirst(markers) ==
    IF "429" \in markers \/ "rate limit" \in markers THEN "RATE_LIMIT"
    ELSE IF "401" \in markers \/ "Unauthorized" \in markers THEN "AUTH_ERROR"
    ELSE IF "network" \in markers \/ "fetch" \in markers
    THEN "NETWORK_ERROR"
    ELSE "UNKNOWN_ERROR"

\* the tests of handleApiError on a message that includes the given markers
ApiErrorType(markers) ==
    IF "401" \in markers \/ "Unauthorized" \in markers THEN "AUTH_ERROR"
    ELSE IF "429" \in markers \/ "rate limit" \in markers THEN "RATE_LIMIT"
    ELSE IF "network" \in markers \/ "fetch" \in markers
    THEN "NETWORK_ERROR"
    ELSE "UNKNOWN_ERROR"

\* ErrorHandler.handleApiError: the type of the error info
handleApiError(e) == ApiErrorType(MessageMarkers(e))

\* the answer of the backend's /api/transcribe when the call of the
\* upstream service fails with the given status (0: no response)
BackendStatus(upstream) ==
    IF upstream = 401 THEN 401
    ELSE IF upstream = 429 THEN 429
    ELSE 500

\* ErrorHandler.getUserFriendlyMessage
getUserFriendlyMessage(type) ==
    CASE type = "AUTH_ERROR" ->
           "Please check your API keys in the extension settings"
      [] type = "RATE_LIMIT" ->
           "API rate limit exceeded. Please wait a moment and try again"
      [] type = "NETWORK_ERROR" ->
           "Network connection failed. Please check your internet connection"
      [] type = "PERMISSION_ERROR" ->
           "Microphone permission denied. Please allow microphone access"
      [] type = "DEVICE_ERROR" ->
           "Microphone device not found. Please check your audio settings"
      [] type = "STORAGE_ERROR" ->
           "Failed to save settings. Please try again"
      [] OTHER ->
           "An unexpected error occurred. Please try again"

----------------------------------------------------------------------------
(* BackgroundService.processAudioChunk, one record per invocation *)

\* client calls and playbacks that fail in one behaviour
MaxFailures == 1

\* the transcripts the speech-to-text service answers with: nothing, a
\* blank, Arabic, and plain English
TranscriptTexts == {<<>>, <<32>>, <<1605, 1585>>, <<72, 105>>}

\* the translation the translation service answers with ("Hi")
TranslatedTexts == {<<72, 105>>}

NoCalls == [transcribe |-> 0, translate |-> 0, synthesize |-> 0, play |-> 0]

\* a processAudioChunk invocation that has returned at once; snapshot keeps
\* the settings in force when the invocation began, fetches counts
\* the calls of fetch its clients have made
TaskIdle(inst, blob) ==
    [inst |-> inst, blob |-> blob, pc |-> "done", outcome |-> "dropped",
     stage |-> "none", retry |-> RetryIdle, mock |-> FALSE,
     reqLang |-> "",
     text |-> <<>>, language |-> "", confidence |-> 0,
     src |-> "", tgt |-> "", translated |-> <<>>, bidirectional |-> FALSE,
     err |-> Null, calls |-> NoCalls, snapshot |-> currentSettings,
     fetches |-> 0]

\* the language passed to whisperAPI.transcribe
TranscribeLanguage(settings) ==
    IF settings.autoDetectLanguage THEN "auto" ELSE settings.sourceLanguage

\* a client that goes to the network whatever the mock flag says
CallClientAlwaysFetch(task, stage) ==
    [task EXCEPT !.pc = stage,
                 !.mock = currentSettings.mockMode,
                 !.reqLang = TranscribeLanguage(currentSettings),
                 !.calls[stage] = @ + 1,
                 !.fetches = @ + 1]

\* the stage's client is called: the arrow function passed to
\* retryWithBackoff reads the mock flag and the language from the settings
\* of that moment; with the mock flag the client returns its canned value
\* and fetch is not called
CallClient(task, stage) ==
    [task EXCEPT !.pc = stage,
                 !.mock = currentSettings.mockMode,
                 !.reqLang = TranscribeLanguage(currentSettings),
                 !.calls[stage] = @ + 1,
                 !.fetches = @ + IF currentSettings.mockMode THEN 0 ELSE 1]

\* a stage entered with the call going to the synthesis client at once
EnterStageAhead(task, stage) ==
    CallClient([task EXCEPT !.stage = stage, !.outcome = "",
                            !.retry = RetryStart(MAX_RETRIES)], "synthesize")

\* a stage's retryWithBackoff is entered and its client is called for the
\* first time
EnterStage(task, stage) ==
    CallClient([task EXCEPT !.stage = stage, !.outcome = "",
                            !.retry = RetryStart(MAX_RETRIES)], stage)

\* processAudioChunk is entered: the guard, then step 1 calls transcribe
processAudioChunk(inst, blob) ==
    IF ~isActive \/ currentSettings = Null
    THEN TaskIdle(inst, blob)
    ELSE EnterStage(TaskIdle(inst, blob), "transcribe")

\* a catch block that drops the error without telling the content script
CatchErrorSilently(task, e) ==
    [task EXCEPT !.pc = "done", !.outcome = "error", !.err = e]

\* the catch block: the error is classified and sent to the content script,
\* which first queries the tabs
CatchError(task, e) ==
    [task EXCEPT !.pc = "sendError", !.err = e]

\* the transcription is in: the empty check, step 2, and either the first
\* call of translate or the end of the invocation
AfterTranscription(task, tr) ==
    IF IsBlank(tr.text)
    THEN [task EXCEPT !.pc = "done", !.outcome = "empty", !.text = tr.text,
                      !.language = tr.language, !.confidence = tr.confidence]
    ELSE
      LET detected == IF currentSettings.autoDetectLanguage
                      THEN detectLanguage(tr.text)
                      ELSE tr.language
          dir == IF currentSettings.bidirectionalMode
                 THEN determineTranslationDirection(detected, currentSettings)
                 ELSE [source |-> detected,
                       target |-> currentSettings.targetLanguage]
          got == [task EXCEPT !.text = tr.text, !.language = tr.language,
                              !.confidence = tr.confidence,
                              !.src = dir.source, !.tgt = dir.target]
      IN IF needsTranslation(tr.text, dir.target)
         THEN EnterStage(got, "translate")
         ELSE [got EXCEPT !.pc = "done", !.outcome = "skipped"]

\* the translation is in: step 4 calls synthesize
AfterTranslation(task, tl) ==
    EnterStage([task EXCEPT !.translated = tl.translatedText], "synthesize")

\* the audio is in: step 5 calls playAudio, which waits for the decoding
AfterSynthesis(task) ==
    [task EXCEPT !.pc = "play", !.calls.play = @ + 1]

\* playAudio returned: step 6 sends the results, after the tabs query
AfterPlay(task) ==
    [task EXCEPT !.pc = "sendResult",
                 !.bidirectional = currentSettings.bidirectionalMode]

\* the message sendResultsToContentScript sends for a task
ResultEvent(t, task) ==
    [type |-> "TRANSLATION_RESULT", seg |-> t,
     data |-> [originalText |-> task.text,
               translatedText |-> task.translated,
               sourceLanguage |-> task.src,
               targetLanguage |-> task.tgt,
               confidence |-> task.confidence,
               bidirectional |-> task.bidirectional]]

\* an error message that carries error.message as it is
ErrorEventRaw(t, task) ==
    [type |-> "TRANSLATION_ERROR", seg |-> t, error |-> RawMessage(task.err)]

\* the message sendErrorToContentScript sends for a task
ErrorEvent(t, task) ==
    [type |-> "TRANSLATION_ERROR", seg |-> t,
     error |-> getUserFriendlyMessage(handleApiError(task.err))]

----------------------------------------------------------------------------
(* AudioCapture: the operations *)

\* startCapture on an initialized instance
startCapture(c) == [c EXCEPT !.isCapturing = TRUE, !.audioBuffer = <<>>]

\* stopCapture as a switch: this.isCapturing = !this.isCapturing
stopCaptureToggles(c) == [c EXCEPT !.isCapturing = ~@]

\* stopCapture
stopCapture(c) == [c EXCEPT !.isCapturing = FALSE]

\* onAudioChunk(callback)
onAudioChunk(c, cb) == [c EXCEPT !.chunkCallbacks = Append(@, cb)]

\* the history of an instance when a capture run begins
NewRun(h) == [h EXCEPT !.runInput = <<>>, !.runEmitted = <<>>]

\* the processAudioChunk invocations the called callbacks start, in order
RECURSIVE Started(_, _, _, _)
Started(cbs, called, inst, blob) ==
    IF called = <<>> THEN <<>>
    ELSE (IF cbs[Head(called)] = "pipeline"
          THEN <<processAudioChunk(inst, blob)>>
          ELSE <<>>) \o Started(cbs, Tail(called), inst, blob)

\* the onaudioprocess event of instance i delivers a block of n samples:
\* processAudioData
ProcessAudioData(i, n) ==
    /\ i \in 1..Len(captures)
    /\ captures[i].node
    /\ nextSample + n <= MaxSamples
    /\ LET c == captures[i]
           block == Block(n)
           buf == c.audioBuffer \o block
           emit == Accepts(c) /\ HasChunk(buf)
           blob == convertToWAV(ChunkOf(buf))
           called == InvokedCallbacks(c.chunkCallbacks)
           h1 == IF c.isCapturing
                 THEN [hist[i] EXCEPT !.runInput = @ \o block]
                 ELSE [hist[i] EXCEPT !.dropped = @ \cup Range(block)]
           h2 == IF emit
                 THEN [h1 EXCEPT !.runEmitted = Append(@, blob.samples),
                                 !.allEmitted = Append(@, blob.samples),
                                 !.emissions = Append(@,
                                     [registered |-> c.chunkCallbacks,
                                      called |-> called])]
                 ELSE h1
       IN /\ captures' = [captures EXCEPT ![i].audioBuffer =
                             IF ~Accepts(c) THEN @
                             ELSE IF emit THEN RestOf(buf) ELSE buf]
          /\ hist' = [hist EXCEPT ![i] = h2]
          /\ tasks' = IF emit
                      THEN tasks \o Started(c.chunkCallbacks, called, i, blob)
                      ELSE tasks
    /\ nextSample' = nextSample + n
    /\ lastOp' = [op |-> "processAudioData", arg |-> i, threw |-> FALSE]
    /\ UNCHANGED <<rw, fn, health, isActive, currentSettings, audioCapture, storage, sink,
                   ops, responses, tts, failures>>

\* a direct call of startCapture on instance i
StartCapture(i) ==
    /\ i \in 1..Len(captures)
    /\ IF captures[i].audioContext
       THEN /\ captures' = [captures EXCEPT ![i] = startCapture(@)]
            /\ hist' = [hist EXCEPT ![i] = NewRun(@)]
       ELSE UNCHANGED <<captures, hist>>
    /\ lastOp' = [op |-> "startCapture", arg |-> i,
                  threw |-> ~captures[i].audioContext]
    /\ UNCHANGED <<nextSample, rw, fn, health, coordVars>>

\* a direct call of stopCapture on instance i
StopCapture(i) ==
    /\ i \in 1..Len(captures)
    /\ captures' = [captures EXCEPT ![i] = stopCapture(@)]
    /\ lastOp' = [op |-> "stopCapture", arg |-> i, threw |-> FALSE]
    /\ UNCHANGED <<hist, nextSample, rw, fn, health, coordVars>>

\* a direct call of onAudioChunk on instance i with a synchronous callback
OnAudioChunk(i, cb) ==
    /\ i \in 1..Len(captures)
    /\ Len(captures[i].chunkCallbacks) < MaxCallbacks
    /\ captures' = [captures EXCEPT ![i] = onAudioChunk(@, cb)]
    /\ lastOp' = [op |-> "onAudioChunk", arg |-> i, threw |-> FALSE]
    /\ UNCHANGED <<hist, nextSample, rw, fn, health, coordVars>>

NoOp == [op |-> "none", arg |-> 0, threw |-> FALSE]

\* the coordinator as constructed, before any message
CoordInit ==
    /\ isActive = FALSE
    /\ currentSettings = Null
    /\ audioCapture = 0
    /\ tasks = <<>>
    /\ sink = <<>>
    /\ ops = <<>>
    /\ responses = <<>>
    /\ tts = [currentAudio |-> 0, playing |-> {}]
    /\ failures = 0

\* DEFAULT_SETTINGS
DEFAULT_SETTINGS ==
    [sourceLanguage |-> "ar", targetLanguage |-> "en", mockMode |-> TRUE,
     bidirectionalMode |-> FALSE, autoDetectLanguage |-> TRUE]

\* an AudioCapture on its own, constructed and initialized, driven by direct
\* calls with synchronous callbacks
SegInit ==
    /\ captures = <<Initialized(NewAudioCapture)>>
    /\ hist = <<NewHist>>
    /\ nextSample = 0
    /\ lastOp = NoOp
    /\ rw = [run |-> RetryIdle, raised |-> Null]
    /\ fn = NoCall
    /\ health = NewHealth
    /\ storage = DEFAULT_SETTINGS
    /\ CoordInit

SegNext ==
    \/ \E n \in 1..MaxBlock : ProcessAudioData(1, n)
    \/ StartCapture(1)
    \/ StopCapture(1)
    \/ \E cb \in {"ok", "throws"} : OnAudioChunk(1, cb)

SpecSeg == SegInit /\ [][SegNext]_vars

----------------------------------------------------------------------------
(* Properties of the segmenter *)

Instances == 1..Len(captures)

\* the samples of every chunk instance i has emitted
EmittedSamples(i) ==
    UNION {Range(hist[i].allEmitted[k]) : k \in 1..Len(hist[i].allEmitted)}

\* the chunks of the run followed by the buffer are the samples of the run
RunIsPartitioned(i) ==
    Flatten(hist[i].runEmitted) \o captures[i].audioBuffer = hist[i].runInput

\* C3: within one capture run every emitted segment holds exactly ChunkSize
\* samples, and the segments in emission order followed by the buffer are
\* exactly the samples delivered during the run, in order.
C3_SegmentsPartitionInput ==
    \A i \in Instances :
        /\ \A k \in 1..Len(hist[i].runEmitted) :
               Len(hist[i].runEmitted[k]) = ChunkSize
        /\ RunIsPartitioned(i)

\* two segments emitted in one run and a remainder buffered
C3_Witness ==
    \E i \in Instances :
        Len(hist[i].runEmitted) >= 2 /\ captures[i].audioBuffer # <<>>

\* C4: after every processAudioData call fewer than ChunkSize samples are
\* buffered, and the number of segments emitted in the run is the number of
\* samples received in the run divided by ChunkSize, rounded down.
C4_BufferBelowChunkSize ==
    \A i \in Instances :
        /\ Len(captures[i].audioBuffer) < ChunkSize
        /\ Len(hist[i].runEmitted) = Len(hist[i].runInput) \div ChunkSize

\* C5: whenever a segment is emitted every registered callback is called
\* with it, also after one of them has thrown, and the buffer then holds
\* the remainder it would hold had none thrown.
C5_ThrowingCallbackIsolated ==
    \A i \in Instances :
        /\ \A k \in 1..Len(hist[i].emissions) :
               LET e == hist[i].emissions[k] IN
               e.called = [j \in 1..Len(e.registered) |-> j]
        /\ RunIsPartitioned(i)

\* a segment was emitted to a callback that throws followed by another one
C5_Witness ==
    \E i \in Instances : \E k \in 1..Len(hist[i].emissions) :
        LET e == hist[i].emissions[k] IN
        /\ Len(e.registered) >= 2
        /\ e.registered[1] = "throws"
        /\ 2 \in Range(e.called)
        /\ captures[i].audioBuffer # <<>>

\* no sample delivered while stopped is buffered or was ever emitted
DroppedNowhere ==
    \A i \in Instances :
        hist[i].dropped \cap (Range(captures[i].audioBuffer)
                              \cup EmittedSamples(i)) = {}

\* C6: a block delivered while the segmenter is stopped leaves the buffer as
\* it was and emits nothing, and its samples appear in no later segment.
C6_StoppedSamplesDropped ==
    [][/\ \A i \in Instances :
             (nextSample' > nextSample /\ lastOp'.arg = i
                 /\ ~captures[i].isCapturing)
             => /\ captures'[i] = captures[i]
                /\ hist'[i].allEmitted = hist[i].allEmitted
       /\ DroppedNowhere']_vars

\* samples were dropped while stopped and a segment was emitted afterwards
C6_Witness ==
    \E i \in Instances :
        \E d \in hist[i].dropped : \E e \in EmittedSamples(i) : e > d

----------------------------------------------------------------------------
(* retryWithBackoff on its own: one call, with an operation whose every
   invocation the environment lets succeed or fail *)

RetryInit ==
    /\ captures = <<>>
    /\ hist = <<>>
    /\ nextSample = 0
    /\ lastOp = NoOp
    /\ rw = [run |-> RetryIdle, raised |-> Null]
    /\ fn = NoCall
    /\ health = NewHealth
    /\ storage = DEFAULT_SETTINGS
    /\ CoordInit

\* retryWithBackoff(fn, context, maxRetries) is called
RwCall(maxRetries) ==
    /\ rw.run.status = "idle"
    /\ rw' = [rw EXCEPT !.run = RetryStart(maxRetries)]
    /\ lastOp' = [op |-> "retryWithBackoff", arg |-> maxRetries, threw |-> FALSE]
    /\ UNCHANGED <<segVars, fn, health, coordVars>>

\* the invocation of fn in progress throws
RwReject(status) ==
    /\ rw.run.status = "calling"
    /\ LET e == ErrorOf(status, rw.run.calls) IN
       rw' = [run |-> RetryReject(rw.run, e), raised |-> e]
    /\ lastOp' = [op |-> "fnRejects", arg |-> status, threw |-> TRUE]
    /\ UNCHANGED <<segVars, fn, health, coordVars>>

\* the invocation of fn in progress returns
RwResolve ==
    /\ rw.run.status = "calling"
    /\ rw' = [rw EXCEPT !.run = RetryResolve(rw.run, rw.run.calls)]
    /\ lastOp' = [op |-> "fnResolves", arg |-> 0, threw |-> FALSE]
    /\ UNCHANGED <<segVars, fn, health, coordVars>>

\* the backoff sleep is over
RwWake ==
    /\ rw.run.status = "sleeping"
    /\ rw' = [rw EXCEPT !.run = RetryWake(rw.run)]
    /\ lastOp' = [op |-> "wake", arg |-> 0, threw |-> FALSE]
    /\ UNCHANGED <<segVars, fn, health, coordVars>>

RetryNext ==
    \/ \E maxRetries \in 0..MaxRetriesArg : RwCall(maxRetries)
    \/ \E status \in ErrStatuses : RwReject(status)
    \/ RwResolve
    \/ RwWake

SpecRetry == RetryInit /\ [][RetryNext]_vars

\* C8: an operation that fails at every invocation is invoked exactly
\* maxRetries + 1 times (4 times for maxRetries = 3), and retryWithBackoff
\* then throws the very error of the last invocation.
C8_ExhaustedRetryRethrows ==
    /\ rw.run.calls <= rw.run.maxRetries + 1
    /\ rw.run.status = "threw"
       => /\ rw.run.calls = rw.run.maxRetries + 1
          /\ rw.run.thrown = rw.raised
          /\ rw.raised.id = rw.run.maxRetries + 1
          /\ rw.run.maxRetries = 3 => rw.run.calls = 4

\* with maxRetries = 3 the fourth invocation failed and its error was thrown
C8_Witness ==
    /\ rw.run.status = "threw"
    /\ rw.run.maxRetries = 3
    /\ rw.run.calls = 4
    /\ rw.run.thrown = rw.raised

\* the delays of the defaults 1000 / 2 / 10000, by retry number
ExpectedDelays == <<1000, 2000, 4000, 8000, 10000, 10000, 10000, 10000>>

\* C9: the wait before retry number i is min(1000 * 2^i, 10000), that is
\* 1000, 2000, 4000 for i = 0, 1, 2, never above 10000, and no wait
\* follows the final failed attempt.
C9_BackoffDelays ==
    LET d == rw.run.delays IN
    /\ \A k \in 1..Len(d) : d[k] = ExpectedDelays[k] /\ d[k] <= 10000
    /\ Len(d) <= rw.run.maxRetries
    /\ rw.run.status \in {"threw", "sleeping"} =>
           Len(d) = IF rw.run.status = "threw" THEN rw.run.calls - 1
                    ELSE rw.run.calls

\* five waits, the last one capped, and no wait after the sixth failure
C9_Witness ==
    /\ rw.run.status = "threw"
    /\ rw.run.maxRetries = 5
    /\ rw.run.delays = <<1000, 2000, 4000, 8000, 10000>>

\* C33: when the operation passed to retryWithBackoff first succeeds on
\* its k-th invocation, 1 <= k <= maxRetries + 1, retryWithBackoff returns
\* the result of that invocation, the operation has been invoked exactly k
\* times, exactly k - 1 backoff waits have taken place and no error is
\* raised to the caller.
C33_ReturnsFirstSuccess ==
    rw.run.status = "returned" =>
        /\ rw.run.calls \in 1..(rw.run.maxRetries + 1)
        /\ rw.run.result = rw.run.calls
        /\ rw.run.attempt = rw.run.calls - 1
        /\ Len(rw.run.delays) = rw.run.calls - 1
        /\ rw.run.thrown = Null
        /\ rw.run.calls > 1 => rw.raised.id = rw.run.calls - 1

\* the operation succeeded on its third invocation, after two waits
C33_Witness ==
    /\ rw.run.status = "returned"
    /\ rw.run.maxRetries = 3
    /\ rw.run.calls = 3
    /\ Len(rw.run.delays) = 2

----------------------------------------------------------------------------
(* The pipeline of one processAudioChunk invocation, step by step *)

\* the error playAudio throws when the audio cannot be decoded or played
PlaybackError == [status |-> -1, id |-> 0]

Running(t) == t \in 1..Len(tasks) /\ tasks[t].pc # "done"

\* the transcription service answers invocation t
TranscribeResolves(t) ==
    /\ Running(t)
    /\ tasks[t].pc = "transcribe"
    /\ \E tr \in IF tasks[t].mock
                 THEN {getMockTranscription(tasks[t].reqLang)}
                 ELSE {[text |-> x, language |-> tasks[t].reqLang,
                        confidence |-> 100] : x \in TranscriptTexts} :
          tasks' = [tasks EXCEPT ![t] =
                      AfterTranscription(
                          [@ EXCEPT !.retry = RetryResolve(@, tr.text)], tr)]
    /\ UNCHANGED <<lastOp, segVars, rw, fn, health, isActive, currentSettings, audioCapture,
                   storage, sink, ops, responses, tts, failures>>

\* the translation service answers invocation t
TranslateResolves(t) ==
    /\ Running(t)
    /\ tasks[t].pc = "translate"
    /\ \E tl \in IF tasks[t].mock
                 THEN {getMockTranslation(tasks[t].text, tasks[t].src,
                                          tasks[t].tgt)}
                 ELSE {[translatedText |-> x, confidence |-> 90,
                        sourceLanguage |-> tasks[t].src,
                        targetLanguage |-> tasks[t].tgt] :
                          x \in TranslatedTexts} :
          tasks' = [tasks EXCEPT ![t] =
                      AfterTranslation(
                          [@ EXCEPT !.retry =
                               RetryResolve(@, tl.translatedText)], tl)]
    /\ UNCHANGED <<lastOp, segVars, rw, fn, health, isActive, currentSettings, audioCapture,
                   storage, sink, ops, responses, tts, failures>>

\* the synthesis service answers invocation t, and playAudio begins: the
\* clip still playing is stopped, then the audio is decoded
SynthesizeResolves(t) ==
    /\ Running(t)
    /\ tasks[t].pc = "synthesize"
    /\ tasks' = [tasks EXCEPT ![t] =
                    AfterSynthesis([@ EXCEPT !.retry = RetryResolve(@, t)])]
    /\ tts' = [tts EXCEPT !.playing = @ \ {tts.currentAudio}]
    /\ UNCHANGED <<lastOp, segVars, rw, fn, health, isActive, currentSettings, audioCapture,
                   storage, sink, ops, responses, failures>>

\* a client call of invocation t fails with a backend status, or with no
\* answer; a mock call never fails
ClientRejects(t, status) ==
    /\ Running(t)
    /\ tasks[t].pc \in {"transcribe", "translate", "synthesize"}
    /\ ~tasks[t].mock
    /\ LET r == RetryReject(tasks[t].retry,
                            ErrorOf(status, tasks[t].retry.calls))
       IN tasks' = [tasks EXCEPT ![t] =
                      IF r.status = "threw"
                      THEN CatchError([@ EXCEPT !.retry = r], r.thrown)
                      ELSE [@ EXCEPT !.retry = r, !.pc = "backoff"]]
    /\ failures' = failures + 1
    /\ UNCHANGED <<lastOp, segVars, rw, fn, health, isActive, currentSettings, audioCapture,
                   storage, sink, ops, responses, tts>>

\* the backoff sleep of invocation t is over: the client is called again
BackoffOver(t) ==
    /\ Running(t)
    /\ tasks[t].pc = "backoff"
    /\ LET r == RetryWake(tasks[t].retry) IN
       tasks' = [tasks EXCEPT ![t] =
                    IF r.status = "threw"
                    THEN CatchError([@ EXCEPT !.retry = r], r.thrown)
                    ELSE CallClient([@ EXCEPT !.retry = r], @.stage)]
    /\ UNCHANGED <<lastOp, segVars, rw, fn, health, isActive, currentSettings, audioCapture,
                   storage, sink, ops, responses, tts, failures>>

\* the audio of invocation t is decoded and starts playing
PlayResolves(t) ==
    /\ Running(t)
    /\ tasks[t].pc = "play"
    /\ tasks' = [tasks EXCEPT ![t] = AfterPlay(@)]
    /\ tts' = [currentAudio |-> t, playing |-> tts.playing \cup {t}]
    /\ UNCHANGED <<lastOp, segVars, rw, fn, health, isActive, currentSettings, audioCapture,
                   storage, sink, ops, responses, failures>>

\* playAudio of invocation t throws
PlayRejects(t) ==
    /\ Running(t)
    /\ tasks[t].pc = "play"
    /\ tasks' = [tasks EXCEPT ![t] = CatchError(@, PlaybackError)]
    /\ failures' = failures + 1
    /\ UNCHANGED <<lastOp, segVars, rw, fn, health, isActive, currentSettings, audioCapture,
                   storage, sink, ops, responses, tts>>

\* chrome.tabs.query answers: the result or the error of invocation t is
\* sent to the content script
TabsQueried(t) ==
    /\ Running(t)
    /\ tasks[t].pc \in {"sendResult", "sendError"}
    /\ sink' = Append(sink, IF tasks[t].pc = "sendResult"
                            THEN ResultEvent(t, tasks[t])
                            ELSE ErrorEvent(t, tasks[t]))
    /\ tasks' = [tasks EXCEPT ![t].pc = "done",
                              ![t].outcome = IF tasks[t].pc = "sendResult"
                                             THEN "result" ELSE "error"]
    /\ UNCHANGED <<lastOp, segVars, rw, fn, health, isActive, currentSettings, audioCapture,
                   storage, ops, responses, tts, failures>>

----------------------------------------------------------------------------
(* BackgroundService: START_TRANSLATION and STOP_TRANSLATION *)

\* START_TRANSLATION and STOP_TRANSLATION messages in one behaviour
MaxMessages == 2
\* processAudioChunk invocations in one behaviour
MaxTasks == 2

\* the names getUserMedia rejects with
MicErrorNames == {"NotAllowedError", "NotFoundError", "NotReadableError"}

\* the error AudioCapture.initialize throws: its catch block wraps whatever
\* was thrown in a new Error, whose name is "Error"
InitializeError(name) == [name |-> "Error", cause |-> name]

\* ErrorHandler.handleAudioError: the type of the error info
handleAudioError(e) ==
    IF e.name = "NotAllowedError" THEN "PERMISSION_ERROR"
    ELSE IF e.name = "NotFoundError" THEN "DEVICE_ERROR"
    ELSE IF e.name = "NotReadableError" THEN "DEVICE_ERROR"
    ELSE "AUDIO_ERROR"

Respond(type, ok, msg) == Append(responses, [type |-> type, success |-> ok,
                                             error |-> msg])

Remove(seq, k) == SubSeq(seq, 1, k - 1) \o SubSeq(seq, k + 1, Len(seq))

\* a call in flight: startTranslation, stopTranslation, updateSettings or
\* restartTranslation. by tells who called: a message, whose answer is due,
\* or the health check; re carries the restart the call is part of
Op(kind, pc, inst, by, re) ==
    [kind |-> kind, pc |-> pc, inst |-> inst, by |-> by, re |-> re]

\* the messages received so far: those answered and those being handled
Handled ==
    Len(responses)
      + Cardinality({o \in 1..Len(ops) : ops[o].by = "message"})

\* a restart has run to its end: what it went through and how its start ended
RestartDone(h, re, ok) ==
    [h EXCEPT !.restarts = @ + 1,
              !.restart = [old |-> re.old, log |-> re.log, ok |-> ok]]

\* START_TRANSLATION arrives: startTranslation returns at once when active,
\* else it waits for storageManager.getSettings()
StartTranslation ==
    /\ IF isActive
       THEN /\ responses' = Respond("START_TRANSLATION", TRUE, "")
            /\ ops' = ops
       ELSE /\ ops' = Append(ops, Op("start", "loadSettings", 0, "message",
                                     Null))
            /\ responses' = responses
    /\ UNCHANGED <<lastOp, segVars, rw, fn, health, isActive, currentSettings,
                   audioCapture, storage, tasks, sink, tts, failures>>

\* the settings are loaded: a new AudioCapture is created and initialize()
\* waits for the microphone
StartSettingsLoaded(o) ==
    /\ o \in 1..Len(ops)
    /\ ops[o].kind = "start" /\ ops[o].pc = "loadSettings"
    /\ currentSettings' = storage
    /\ captures' = Append(captures, NewAudioCapture)
    /\ hist' = Append(hist, NewHist)
    /\ audioCapture' = Len(captures) + 1
    /\ ops' = [ops EXCEPT ![o].pc = "initAudio", ![o].inst = Len(captures) + 1]
    /\ UNCHANGED <<lastOp, nextSample, rw, fn, health, isActive, storage, tasks,
                   sink, responses, tts, failures>>

\* startTranslation of call o has ended, with success or with the message of
\* the error it threw: a message is answered; restartTranslation logs the
\* error and ends. errs is the number of audio-device errors in a row now
StartEnded(o, ok, msg, errs) ==
    /\ ops' = Remove(ops, o)
    /\ IF ops[o].by = "message"
       THEN /\ responses' = Respond("START_TRANSLATION", ok, msg)
            /\ health' = [health EXCEPT !.audioErrors = errs]
       ELSE /\ responses' = responses
            /\ health' = RestartDone([health EXCEPT !.audioErrors = errs],
                                     ops[o].re, ok)

\* initialize() resolved: the chunk handler is registered on
\* this.audioCapture, capture starts and the service becomes active. When
\* this.audioCapture is null by now, or names an instance that is not
\* initialized, the call throws
StartInitResolved(o) ==
    /\ o \in 1..Len(ops)
    /\ ops[o].kind = "start" /\ ops[o].pc = "initAudio"
    /\ LET inited == [captures EXCEPT ![ops[o].inst] = Initialized(@)]
           ac == audioCapture
       IN IF ac = 0
          THEN /\ captures' = inited
               /\ UNCHANGED <<hist, isActive>>
               /\ StartEnded(o, FALSE, "TypeError", 0)
          ELSE IF ~inited[ac].audioContext
          THEN /\ captures' = [inited EXCEPT ![ac] = onAudioChunk(@, "pipeline")]
               /\ UNCHANGED <<hist, isActive>>
               /\ StartEnded(o, FALSE, "Audio capture not initialized", 0)
          ELSE /\ captures' = [inited EXCEPT ![ac] =
                                 startCapture(onAudioChunk(@, "pipeline"))]
               /\ hist' = [hist EXCEPT ![ac] = NewRun(@)]
               /\ isActive' = TRUE
               /\ StartEnded(o, TRUE, "", 0)
    /\ UNCHANGED <<lastOp, nextSample, rw, fn, currentSettings, audioCapture,
                   storage, tasks, sink, tts, failures>>

\* initialize() rejected: the error is classified by handleAudioError and
\* startTranslation throws the user-friendly message
StartInitRejected(o, name) ==
    /\ o \in 1..Len(ops)
    /\ ops[o].kind = "start" /\ ops[o].pc = "initAudio"
    /\ StartEnded(o, FALSE,
           getUserFriendlyMessage(handleAudioError(InitializeError(name))),
           health.audioErrors + 1)
    /\ failures' = failures + 1
    /\ UNCHANGED <<lastOp, segVars, rw, fn, isActive, currentSettings,
                   audioCapture, storage, tasks, sink, tts>>

\* cleanup() up to its await: capture is off and the processor node is
\* disconnected
cleanupBegin(c) == [c EXCEPT !.isCapturing = FALSE, !.node = FALSE]

\* cleanup() after audioContext.close(): the context is gone, the buffer and
\* the callbacks are emptied
cleanupEnd(c) ==
    [c EXCEPT !.audioContext = FALSE, !.audioBuffer = <<>>,
              !.chunkCallbacks = <<>>]

\* the message the health check sends when it has disabled the translation
TerminalEvent ==
    [type |-> "TRANSLATION_ERROR", seg |-> 0,
     error |-> "Too many audio errors. Please check your microphone settings."]

\* STOP_TRANSLATION arrives: stopTranslation returns at once when not
\* active, else it stops the capture and waits for cleanup()
StopTranslation ==
    /\ IF ~isActive
       THEN /\ responses' = Respond("STOP_TRANSLATION", TRUE, "")
            /\ UNCHANGED <<captures, ops, isActive, audioCapture>>
       ELSE IF audioCapture = 0
       THEN /\ isActive' = FALSE
            /\ responses' = Respond("STOP_TRANSLATION", TRUE, "")
            /\ UNCHANGED <<captures, ops, audioCapture>>
       ELSE IF captures[audioCapture].audioContext
       THEN /\ captures' = [captures EXCEPT ![audioCapture] =
                               cleanupBegin(stopCapture(@))]
            /\ ops' = Append(ops, Op("stop", "closing", audioCapture,
                                     "message", Null))
            /\ UNCHANGED <<responses, isActive, audioCapture>>
       ELSE /\ captures' = [captures EXCEPT ![audioCapture] =
                               cleanupEnd(cleanupBegin(stopCapture(@)))]
            /\ audioCapture' = 0
            /\ isActive' = FALSE
            /\ responses' = Respond("STOP_TRANSLATION", TRUE, "")
            /\ ops' = ops
    /\ UNCHANGED <<lastOp, hist, nextSample, rw, fn, health, currentSettings,
                   storage, tasks, sink, tts, failures>>

\* audioContext.close() resolved: cleanup() finishes, then stopTranslation
\* clears this.audioCapture and this.isActive and returns. A message is
\* answered; restartTranslation goes on to its one-second wait; the health
\* check that disabled the translation goes on to send its error (the tabs
\* query of sendErrorToContentScript is part of this step)
StopClosed(o) ==
    /\ o \in 1..Len(ops)
    /\ ops[o].kind = "stop" /\ ops[o].pc = "closing"
    /\ captures' = [captures EXCEPT ![ops[o].inst] = cleanupEnd(@)]
    /\ audioCapture' = 0
    /\ isActive' = FALSE
    /\ IF ops[o].by = "message"
       THEN /\ responses' = Respond("STOP_TRANSLATION", TRUE, "")
            /\ ops' = Remove(ops, o)
            /\ sink' = sink
       ELSE IF ops[o].by = "restart"
       THEN /\ ops' = [ops EXCEPT ![o] =
                          Op("restart", "cooldown", 0, "restart",
                             [ops[o].re EXCEPT !.log = Append(@, "wait")])]
            /\ UNCHANGED <<responses, sink>>
       ELSE /\ sink' = Append(sink, TerminalEvent)
            /\ ops' = Remove(ops, o)
            /\ responses' = responses
    /\ UNCHANGED <<lastOp, hist, nextSample, rw, fn, health, currentSettings,
                   storage, tasks, tts, failures>>

\* AudioCapture.getStatus
getStatus(c) ==
    [isCapturing |-> c.isCapturing, isInitialized |-> c.audioContext,
     bufferLength |-> Len(c.audioBuffer)]

\* the health check timer fires. While active with a capture: a capture that
\* is not initialized or not capturing starts restartTranslation, whose
\* first step is stopTranslation; too many counted audio errors start
\* stopTranslation followed by the error message. The check notes whether
\* it ran after more audio-device errors in a row than the limit
HealthCheck ==
    /\ health' = [health EXCEPT !.checks = @ + 1,
                     !.checked = @ \/ health.audioErrors > ERROR_LIMIT]
    /\ IF isActive /\ audioCapture # 0
       THEN LET status == getStatus(captures[audioCapture])
                by == IF ~status.isInitialized \/ ~status.isCapturing
                      THEN "restart"
                      ELSE IF isFeatureDisabled(health.errorCounts,
                                                "audio_error-health_check")
                      THEN "disable"
                      ELSE "none"
                re == [old |-> audioCapture, log |-> <<"stop">>]
            IN IF by = "none"
               THEN UNCHANGED <<captures, ops, audioCapture, isActive>>
               ELSE IF captures[audioCapture].audioContext
               THEN /\ captures' = [captures EXCEPT ![audioCapture] =
                                       cleanupBegin(stopCapture(@))]
                    /\ ops' = Append(ops, Op("stop", "closing", audioCapture,
                                             by, re))
                    /\ UNCHANGED <<audioCapture, isActive>>
               ELSE /\ captures' = [captures EXCEPT ![audioCapture] =
                                       cleanupEnd(cleanupBegin(stopCapture(@)))]
                    /\ audioCapture' = 0
                    /\ isActive' = FALSE
                    /\ ops' = Append(ops, Op("restart", "cooldown", 0, by,
                                 [re EXCEPT !.log = Append(@, "wait")]))
       ELSE UNCHANGED <<captures, ops, audioCapture, isActive>>
    /\ UNCHANGED <<lastOp, hist, nextSample, rw, fn, currentSettings, storage,
                   tasks, sink, responses, tts, failures>>

\* the one-second wait of restartTranslation is over: startTranslation is
\* called, and returns at once when the service is active
CooldownOver(o) ==
    /\ o \in 1..Len(ops)
    /\ ops[o].kind = "restart" /\ ops[o].pc = "cooldown"
    /\ LET re == [ops[o].re EXCEPT !.log = Append(@, "start")] IN
       IF isActive
       THEN /\ ops' = Remove(ops, o)
            /\ health' = RestartDone(health, re, TRUE)
       ELSE /\ ops' = [ops EXCEPT ![o] =
                          Op("start", "loadSettings", 0, "restart", re)]
            /\ health' = health
    /\ UNCHANGED <<lastOp, segVars, rw, fn, isActive, currentSettings,
                   audioCapture, storage, tasks, sink, responses, tts,
                   failures>>

\* the settings the storage may hold: the defaults, the defaults with the
\* real services, and the real services in bidirectional mode
SettingsChoices ==
    {DEFAULT_SETTINGS,
     [DEFAULT_SETTINGS EXCEPT !.mockMode = FALSE],
     [DEFAULT_SETTINGS EXCEPT !.mockMode = FALSE, !.bidirectionalMode = TRUE]}

Init ==
    /\ captures = <<>>
    /\ hist = <<>>
    /\ nextSample = 0
    /\ lastOp = NoOp
    /\ rw = [run |-> RetryIdle, raised |-> Null]
    /\ fn = NoCall
    /\ health = NewHealth
    /\ storage \in SettingsChoices
    /\ CoordInit

\* messages, chunks and failures of one behaviour, together
MaxEvents == 4

\* the messages received, the chunks handled and the failures met so far
Events == Handled + Len(tasks) + failures

\* the messages, the chunks and the failures of one behaviour are bounded;
\* the microphone delivers one chunk's worth of samples per event, and only
\* the events of a capturing instance are followed (the others only drop
\* their samples)
CanFail == failures < MaxFailures /\ Events < MaxEvents

Next ==
    \/ Handled < MaxMessages /\ Events < MaxEvents /\ StartTranslation
    \/ Handled < MaxMessages /\ Events < MaxEvents /\ StopTranslation
    \/ \E o \in 1..Len(ops) : StartSettingsLoaded(o)
    \/ \E o \in 1..Len(ops) : StartInitResolved(o)
    \/ \E o \in 1..Len(ops), name \in MicErrorNames :
          CanFail /\ StartInitRejected(o, name)
    \/ \E o \in 1..Len(ops) : StopClosed(o)
    \/ \E i \in 1..Len(captures) :
          /\ Len(tasks) < MaxTasks /\ Events < MaxEvents
          /\ captures[i].isCapturing
          /\ ProcessAudioData(i, ChunkSize)
    \/ \E t \in 1..Len(tasks) : TranscribeResolves(t)
    \/ \E t \in 1..Len(tasks) : TranslateResolves(t)
    \/ \E t \in 1..Len(tasks) : SynthesizeResolves(t)
    \/ \E t \in 1..Len(tasks), status \in ErrStatuses :
          CanFail /\ ClientRejects(t, status)
    \/ \E t \in 1..Len(tasks) : BackoffOver(t)
    \/ \E t \in 1..Len(tasks) : PlayResolves(t)
    \/ \E t \in 1..Len(tasks) : CanFail /\ PlayRejects(t)
    \/ \E t \in 1..Len(tasks) : TabsQueried(t)

Spec == Init /\ [][Next]_vars

----------------------------------------------------------------------------
(* The coordinator with one more message and one invocation at a time: room
   for a start, a stop and a second stop *)

\* START_TRANSLATION and STOP_TRANSLATION messages in one behaviour
LifecycleMessages == 3
\* processAudioChunk invocations in one behaviour
LifecycleTasks == 1

LifecycleNext ==
    \/ Handled < LifecycleMessages /\ Events < MaxEvents /\ StartTranslation
    \/ Handled < LifecycleMessages /\ Events < MaxEvents /\ StopTranslation
    \/ \E o \in 1..Len(ops) : StartSettingsLoaded(o)
    \/ \E o \in 1..Len(ops) : StartInitResolved(o)
    \/ \E o \in 1..Len(ops), name \in MicErrorNames :
          CanFail /\ StartInitRejected(o, name)
    \/ \E o \in 1..Len(ops) : StopClosed(o)
    \/ \E i \in 1..Len(captures) :
          /\ Len(tasks) < LifecycleTasks /\ Events < MaxEvents
          /\ captures[i].isCapturing
          /\ ProcessAudioData(i, ChunkSize)
    \/ \E t \in 1..Len(tasks) : TranscribeResolves(t)
    \/ \E t \in 1..Len(tasks) : TranslateResolves(t)
    \/ \E t \in 1..Len(tasks) : SynthesizeResolves(t)
    \/ \E t \in 1..Len(tasks), status \in ErrStatuses :
          CanFail /\ ClientRejects(t, status)
    \/ \E t \in 1..Len(tasks) : BackoffOver(t)
    \/ \E t \in 1..Len(tasks) : PlayResolves(t)
    \/ \E t \in 1..Len(tasks) : CanFail /\ PlayRejects(t)
    \/ \E t \in 1..Len(tasks) : TabsQueried(t)

SpecLifecycle == Init /\ [][LifecycleNext]_vars

----------------------------------------------------------------------------
(* Properties of the coordinator *)

\* the invocations whose pipeline is under way: transcription has been
\* called and the invocation has not returned
InProgress == {t \in 1..Len(tasks) : tasks[t].pc # "done"}

\* C1: at any time at most one segment's pipeline, from the start of
\* transcription to the emission of its result, is in progress.
C1_AtMostOneInProgress == Cardinality(InProgress) <= 1

\* the positions in the sink of the TRANSLATION_RESULT events
ResultPositions == {k \in 1..Len(sink) : sink[k].type = "TRANSLATION_RESULT"}

\* C2: result events reach the sink in the order in which their segments
\* were captured: of two TRANSLATION_RESULT events, the one of the earlier
\* segment is sent first.
C2_ResultsInCaptureOrder ==
    \A k, l \in ResultPositions : k < l => sink[k].seg < sink[l].seg

\* the answer to a STOP_TRANSLATION message that raised no error
StopAnswer == [type |-> "STOP_TRANSLATION", success |-> TRUE, error |-> ""]

\* a STOP_TRANSLATION has been answered, no message has been answered since
\* and none is being handled: no start since the last stop
StoppedLast ==
    /\ responses # <<>>
    /\ responses[Len(responses)].type = "STOP_TRANSLATION"
    /\ ops = <<>>

\* a STOP_TRANSLATION is answered in this step
StopAnswered ==
    /\ Len(responses') = Len(responses) + 1
    /\ responses'[Len(responses')].type = "STOP_TRANSLATION"

\* C7: stop is idempotent. stopCapture applied twice to any instance gives
\* the instance that stopCapture applied once gives; and a stopTranslation
\* that follows a stopTranslation with no start in between is answered
\* without an error and leaves the service, its AudioCapture instances, its
\* settings, its invocations and the sink as they were.
C7_StopIsIdempotent ==
    /\ [](\A i \in 1..Len(captures) :
             stopCapture(stopCapture(captures[i])) = stopCapture(captures[i]))
    /\ [][StoppedLast /\ StopAnswered =>
             /\ responses' = Append(responses, StopAnswer)
             /\ UNCHANGED <<isActive, audioCapture, captures, currentSettings,
                            tasks, sink, ops, tts>>]_vars

\* a translation was started and stopped, and a second STOP_TRANSLATION was
\* answered right after the first
C7_Witness ==
    /\ Len(responses) = 3
    /\ responses[1] = [type |-> "START_TRANSLATION", success |-> TRUE,
                       error |-> ""]
    /\ responses[2] = StopAnswer
    /\ responses[3] = StopAnswer
    /\ ops = <<>>
    /\ Len(captures) = 1
    /\ ~isActive

\* the transcription of invocation t has returned
Transcribed(t) ==
    /\ tasks[t].calls.transcribe > 0
    /\ \/ tasks[t].stage # "transcribe"
       \/ tasks[t].pc = "done" /\ tasks[t].err = Null

\* a text with nothing but white space in it, the empty text included
WhiteOnly(x) == \A k \in 1..Len(x) : IsWhiteSpace(x[k])

\* invocation t got an empty or white transcript
GotBlank(t) == Transcribed(t) /\ WhiteOnly(tasks[t].text)

\* C10: when the transcription of a segment returns empty or whitespace-only
\* text, the invocation ends without a result event or an error event for
\* the segment and without a call of translation, synthesis or playback; and
\* the step in which the transcript arrives leaves the service active, with
\* its capture and its settings as they were.
C10_BlankTranscriptIsSilent ==
    /\ [](\A t \in 1..Len(tasks) : GotBlank(t) =>
             /\ tasks[t].pc = "done"
             /\ tasks[t].err = Null
             /\ tasks[t].calls.translate = 0
             /\ tasks[t].calls.synthesize = 0
             /\ tasks[t].calls.play = 0
             /\ \A k \in 1..Len(sink) : sink[k].seg # t)
    /\ [][\A t \in 1..Len(tasks) :
             ~GotBlank(t) /\ GotBlank(t)' =>
                 UNCHANGED <<isActive, audioCapture, captures,
                             currentSettings, sink>>]_vars

\* a segment got a transcript of one blank, and the segment after it went
\* through the pipeline to its result event
C10_Witness ==
    \E t \in 1..Len(tasks) :
       /\ GotBlank(t)
       /\ tasks[t].text = <<32>>
       /\ \E k \in 1..Len(sink) :
             /\ sink[k].seg > t
             /\ sink[k].type = "TRANSLATION_RESULT"

----------------------------------------------------------------------------
(* BackgroundService: UPDATE_SETTINGS, and the coordinator with settings that
   change while a chunk is being processed *)

\* the settings an UPDATE_SETTINGS message carries
SettingsPatches ==
    {[mockMode |-> FALSE], [mockMode |-> TRUE], [bidirectionalMode |-> TRUE],
     [targetLanguage |-> "ar"]}

\* { ...this.currentSettings, ...settings }
MergeSettings(current, settings) ==
    IF current = Null THEN settings
    ELSE [k \in DOMAIN current \cup DOMAIN settings |->
            IF k \in DOMAIN settings THEN settings[k] ELSE current[k]]

\* UPDATE_SETTINGS arrives: updateSettings merges the new values into
\* this.currentSettings at once, then waits for storageManager.saveSettings
UpdateSettings(settings) ==
    /\ currentSettings' = MergeSettings(currentSettings, settings)
    /\ ops' = Append(ops, [kind |-> "update", pc |-> "saving", inst |-> 0,
                           by |-> "message", re |-> Null,
                           saved |-> MergeSettings(currentSettings, settings)])
    /\ UNCHANGED <<lastOp, segVars, rw, fn, health, isActive, audioCapture,
                   storage, tasks, sink, responses, tts, failures>>

\* saveSettings resolved: the merged settings are stored and the request is
\* answered
SettingsSaved(o) ==
    /\ o \in 1..Len(ops)
    /\ ops[o].kind = "update" /\ ops[o].pc = "saving"
    /\ storage' = ops[o].saved
    /\ responses' = Respond("UPDATE_SETTINGS", TRUE, "")
    /\ ops' = Remove(ops, o)
    /\ UNCHANGED <<lastOp, segVars, rw, fn, health, isActive, currentSettings,
                   audioCapture, tasks, sink, tts, failures>>

\* START_TRANSLATION and UPDATE_SETTINGS messages in one behaviour
SettingsMessages == 2
\* processAudioChunk invocations in one behaviour
SettingsTasks == 1

\* every service answers and no stop arrives; an update is followed once the
\* settings have been loaded
SettingsNext ==
    \/ Handled < SettingsMessages /\ StartTranslation
    \/ \E settings \in SettingsPatches :
          /\ Handled < SettingsMessages
          /\ currentSettings # Null
          /\ UpdateSettings(settings)
    \/ \E o \in 1..Len(ops) : StartSettingsLoaded(o)
    \/ \E o \in 1..Len(ops) : StartInitResolved(o)
    \/ \E o \in 1..Len(ops) : SettingsSaved(o)
    \/ \E i \in 1..Len(captures) :
          /\ Len(tasks) < SettingsTasks
          /\ captures[i].isCapturing
          /\ ProcessAudioData(i, ChunkSize)
    \/ \E t \in 1..Len(tasks) : TranscribeResolves(t)
    \/ \E t \in 1..Len(tasks) : TranslateResolves(t)
    \/ \E t \in 1..Len(tasks) : SynthesizeResolves(t)
    \/ \E t \in 1..Len(tasks) : PlayResolves(t)
    \/ \E t \in 1..Len(tasks) : TabsQueried(t)

SpecSettings == Init /\ [][SettingsNext]_vars

\* C18: the settings a segment's pipeline uses are those in force when the
\* segment started: every client call of the segment uses the mock flag of
\* that snapshot, and its result event reports the snapshot's bidirectional
\* flag.
C18_SettingsSnapshotPerSegment ==
    /\ \A t \in 1..Len(tasks) :
          tasks[t].pc \in {"transcribe", "translate", "synthesize"} =>
              tasks[t].mock = tasks[t].snapshot.mockMode
    /\ \A k \in 1..Len(sink) :
          sink[k].type = "TRANSLATION_RESULT" =>
              sink[k].data.bidirectional =
                  tasks[sink[k].seg].snapshot.bidirectionalMode

----------------------------------------------------------------------------
(* The coordinator with a service that keeps failing: one start, no stop,
   and room for the four calls of a stage that exhaust its retries *)

\* START_TRANSLATION messages in one behaviour
ExhaustMessages == 1
\* processAudioChunk invocations in one behaviour
ExhaustTasks == 2
\* client calls and playbacks that fail in one behaviour
ExhaustFailures == 4
\* messages, chunks and failures of one behaviour, together
ExhaustEvents == 7

ExhaustCanFail == failures < ExhaustFailures /\ Events < ExhaustEvents

ExhaustNext ==
    \/ Handled < ExhaustMessages /\ Events < ExhaustEvents /\ StartTranslation
    \/ \E o \in 1..Len(ops) : StartSettingsLoaded(o)
    \/ \E o \in 1..Len(ops) : StartInitResolved(o)
    \/ \E o \in 1..Len(ops), name \in MicErrorNames :
          ExhaustCanFail /\ StartInitRejected(o, name)
    \/ \E i \in 1..Len(captures) :
          /\ Len(tasks) < ExhaustTasks /\ Events < ExhaustEvents
          /\ captures[i].isCapturing
          /\ ProcessAudioData(i, ChunkSize)
    \/ \E t \in 1..Len(tasks) : TranscribeResolves(t)
    \/ \E t \in 1..Len(tasks) : TranslateResolves(t)
    \/ \E t \in 1..Len(tasks) : SynthesizeResolves(t)
    \/ \E t \in 1..Len(tasks), status \in ErrStatuses :
          ExhaustCanFail /\ ClientRejects(t, status)
    \/ \E t \in 1..Len(tasks) : BackoffOver(t)
    \/ \E t \in 1..Len(tasks) : PlayResolves(t)
    \/ \E t \in 1..Len(tasks) : ExhaustCanFail /\ PlayRejects(t)
    \/ \E t \in 1..Len(tasks) : TabsQueried(t)

SpecExhaust == Init /\ [][ExhaustNext]_vars

\* the values of the table of getUserFriendlyMessage
ErrorTypes ==
    {"AUTH_ERROR", "RATE_LIMIT", "NETWORK_ERROR", "PERMISSION_ERROR",
     "DEVICE_ERROR", "STORAGE_ERROR", "UNKNOWN_ERROR"}
FriendlyMessages == {getUserFriendlyMessage(type) : type \in ErrorTypes}

\* C24: every error event sent to the content script carries a message of
\* the table of user-facing messages, and never the message of the error
\* that was thrown.
C24_OnlyFriendlyMessages ==
    \A k \in 1..Len(sink) :
       sink[k].type = "TRANSLATION_ERROR" =>
          /\ sink[k].error \in FriendlyMessages
          /\ sink[k].error # RawMessage(tasks[sink[k].seg].err)

\* an error event was sent for a backend failure that no marker matches
C24_Witness ==
    \E k \in 1..Len(sink) :
       /\ sink[k].type = "TRANSLATION_ERROR"
       /\ tasks[sink[k].seg].err.status = 500

\* the events of kind type in the sink for invocation t
EventsOf(t, type) ==
    {k \in 1..Len(sink) : sink[k].seg = t /\ sink[k].type = type}

\* C12: when transcription, translation and synthesis of a segment succeed
\* and playback fails, exactly one result event and no error event is
\* emitted for the segment.
C12_PlaybackFailureStillResult ==
    \A t \in 1..Len(tasks) :
       (tasks[t].err = PlaybackError /\ tasks[t].pc = "done") =>
           /\ Cardinality(EventsOf(t, "TRANSLATION_RESULT")) = 1
           /\ EventsOf(t, "TRANSLATION_ERROR") = {}

\* the retries of invocation t's current stage are exhausted: the stage was
\* called MAX_RETRIES + 1 times and retryWithBackoff threw
Exhausted(t) ==
    /\ tasks[t].retry.status = "threw"
    /\ tasks[t].retry.calls = MAX_RETRIES + 1

\* C13: when a stage's retries are exhausted for a segment, the coordinator
\* emits exactly one error event and no result event for that segment; the
\* steps that exhaust the retries and send the error leave isActive, the
\* capture and the settings as they were; and every segment whose stages
\* and playback succeeded has exactly one result event, whatever happened
\* to the segments before it.
C13_ExhaustionReportedOnce ==
    /\ [](\A t \in 1..Len(tasks) :
             /\ Exhausted(t) =>
                   /\ tasks[t].pc \in {"sendError", "done"}
                   /\ EventsOf(t, "TRANSLATION_RESULT") = {}
                   /\ Cardinality(EventsOf(t, "TRANSLATION_ERROR")) =
                         IF tasks[t].pc = "done" THEN 1 ELSE 0
             /\ (tasks[t].pc = "done" /\ tasks[t].calls.play > 0
                    /\ tasks[t].err = Null) =>
                   Cardinality(EventsOf(t, "TRANSLATION_RESULT")) = 1)
    /\ [][\A t \in 1..Len(tasks) :
             (Exhausted(t)' /\ tasks'[t] # tasks[t]) =>
                 UNCHANGED <<isActive, audioCapture, captures,
                             currentSettings>>]_vars

\* the transcription of a segment failed four times and its error event was
\* sent; the service is still active and the segment after it got its
\* result event later
C13_Witness ==
    /\ isActive
    /\ \E t \in 1..Len(tasks), k, l \in 1..Len(sink) :
          /\ Exhausted(t)
          /\ tasks[t].stage = "transcribe"
          /\ sink[k].seg = t /\ sink[k].type = "TRANSLATION_ERROR"
          /\ k < l
          /\ sink[l].seg > t /\ sink[l].type = "TRANSLATION_RESULT"

\* C14: an authentication error (HTTP 401) raised by a stage is never
\* retried: the stage's operation is not called again after it, and the
\* error goes to the catch block at once.
C14_AuthErrorNotRetried ==
    \A t \in 1..Len(tasks) :
       (tasks[t].retry.lastError # Null
          /\ tasks[t].retry.lastError.status = 401) =>
           /\ tasks[t].retry.calls = 1
           /\ tasks[t].pc \in {"sendError", "done"}

\* C17: no result or error event is emitted for a segment once stop has
\* been invoked on the capture that produced it: an event is sent only
\* while the processor node of that capture is still connected.
C17_NoEventAfterStop ==
    [][Len(sink') > Len(sink) =>
          captures[tasks[sink'[Len(sink')].seg].inst].node]_vars

\* C19: at most one synthesized clip is playing at any time.
C19_OneClipPlaying == Cardinality(tts.playing) <= 1

\* the canned texts of MOCK_RESPONSES.transcription
CannedTranscripts == {MockTranscriptions[l] : l \in DOMAIN MockTranscriptions}

\* invocation t began in mock mode and its clients have been called
MockRun(t) ==
    /\ tasks[t].calls.transcribe > 0
    /\ tasks[t].snapshot.mockMode

\* C27: in mock mode no client performs a network call: the clients return
\* their canned values without calling fetch, and the transcript and the
\* translation are determined by the language arguments.
C27_MockNeverFetches ==
    \A t \in 1..Len(tasks) :
       MockRun(t) =>
          /\ tasks[t].fetches = 0
          /\ Transcribed(t) =>
                /\ tasks[t].text \in CannedTranscripts
                /\ tasks[t].text =
                     IF tasks[t].reqLang \in DOMAIN MockTranscriptions
                     THEN MockTranscriptions[tasks[t].reqLang]
                     ELSE MockTranscriptions["ar"]
          /\ tasks[t].calls.synthesize > 0 =>
                tasks[t].translated = HelloHowAreYou

\* an invocation in mock mode has called its three clients and sent its
\* result
C27_Witness ==
    \E t \in 1..Len(tasks) :
       /\ MockRun(t)
       /\ tasks[t].calls.synthesize > 0
       /\ tasks[t].outcome = "result"

\* invocation t began under the default settings and ran to its end with
\* no stage failing
DefaultRun(t) ==
    /\ tasks[t].calls.transcribe > 0
    /\ tasks[t].snapshot = DEFAULT_SETTINGS
    /\ tasks[t].pc = "done"
    /\ tasks[t].err = Null

\* the result event of the mock run under the default settings; the
\* confidence is in hundredths
DefaultResult ==
    [originalText |-> <<1605, 1585, 1581, 1576, 1575, 1548, 32, 1603, 1610,
                        1601, 32, 1581, 1575, 1604, 1603, 1567>>,
     translatedText |-> <<72, 101, 108, 108, 111, 44, 32, 104, 111, 119, 32,
                          97, 114, 101, 32, 121, 111, 117, 63>>,
     sourceLanguage |-> "ar", targetLanguage |-> "en", confidence |-> 95,
     bidirectional |-> FALSE]

EventsOfSegment(t) ==
    {k \in 1..Len(sink) :
        /\ tasks[sink[k].seg].inst = tasks[t].inst
        /\ tasks[sink[k].seg].blob = tasks[t].blob}

\* C30: delivery is at most once per segment: for every segment handed to
\* the coordinator, at most one event, result or error, is emitted.
C30_AtMostOncePerSegment ==
    \A t \in 1..Len(tasks) : Cardinality(EventsOfSegment(t)) <= 1

\* the place of a retried stage in the sequence of processAudioChunk
StageOrder(stage) ==
    CASE stage = "none" -> 0
      [] stage = "transcribe" -> 1
      [] stage = "translate" -> 2
      [] stage = "synthesize" -> 3

\* one step of invocation t keeps the stages in sequence
StagesInSequence(t) ==
    LET a == tasks[t]
        b == tasks'[t]
    IN /\ b.calls.translate > a.calls.translate =>
            IF a.calls.translate = 0
            THEN a.pc = "transcribe" /\ a.retry.status = "calling"
                 /\ ~IsBlank(b.text)
            ELSE a.pc = "backoff" /\ a.stage = "translate"
       /\ b.calls.synthesize > a.calls.synthesize =>
            IF a.calls.synthesize = 0
            THEN a.pc = "translate" /\ a.retry.status = "calling"
                 /\ a.calls.transcribe > 0
            ELSE a.pc = "backoff" /\ a.stage = "synthesize"
       /\ b.calls.play > a.calls.play =>
            a.pc = "synthesize" /\ a.retry.status = "calling"
       /\ b.outcome = "result" /\ a.outcome # "result" =>
            a.pc = "sendResult" /\ a.calls.play > 0
       /\ \A s \in {"transcribe", "translate", "synthesize"} :
            StageOrder(s) > StageOrder(b.stage) => b.calls[s] = 0
       /\ b.calls.play > 0 => b.stage = "synthesize"

\* C31: within one segment the stages run strictly in sequence: translation
\* is first invoked only after transcription has succeeded, synthesis only
\* after translation has succeeded, playback only after synthesis has
\* succeeded, the result event only after playback has returned; a retry
\* of a later stage never starts before an earlier stage has finished,
\* backoff waits included.
C31_StagesInSequence ==
    [][\A t \in 1..Len(tasks) : StagesInSequence(t)]_vars

\* a segment whose translation was retried after a backoff wait and whose
\* result was delivered
C31_Witness ==
    \E t \in 1..Len(tasks) :
        /\ tasks[t].outcome = "result"
        /\ tasks[t].calls.translate = 2
        /\ tasks[t].calls.synthesize = 1

-----------------------------------------------------------------------------
(* The coordinator with clients and timers that always answer: one start, a
   service that may fail, and every pending call, sleep, playback and tabs
   query of an invocation returning in the end *)

\* START_TRANSLATION messages in one behaviour
LiveMessages == 1
\* processAudioChunk invocations in one behaviour
LiveTasks == 2
\* client calls and playbacks that fail in one behaviour
LiveFailures == 4
\* messages, chunks and failures of one behaviour, together
LiveEvents == 6

LiveCanFail == failures < LiveFailures /\ Events < LiveEvents

\* what invocation t is waiting for comes back: a client answers or throws,
\* a sleep ends, the playback starts or fails, the tabs query answers
PipelineStep(t) ==
    \/ TranscribeResolves(t)
    \/ TranslateResolves(t)
    \/ SynthesizeResolves(t)
    \/ \E status \in ErrStatuses : LiveCanFail /\ ClientRejects(t, status)
    \/ BackoffOver(t)
    \/ PlayResolves(t)
    \/ LiveCanFail /\ PlayRejects(t)
    \/ TabsQueried(t)

LiveNext ==
    \/ Handled < LiveMessages /\ Events < LiveEvents /\ StartTranslation
    \/ \E o \in 1..Len(ops) : StartSettingsLoaded(o)
    \/ \E o \in 1..Len(ops) : StartInitResolved(o)
    \/ \E o \in 1..Len(ops), name \in MicErrorNames :
          LiveCanFail /\ StartInitRejected(o, name)
    \/ \E i \in 1..Len(captures) :
          /\ Len(tasks) < LiveTasks /\ Events < LiveEvents
          /\ captures[i].isCapturing
          /\ ProcessAudioData(i, ChunkSize)
    \/ \E t \in 1..Len(tasks) : PipelineStep(t)

\* every awaited promise of a pipeline settles: weak fairness of the steps
\* of each invocation
SpecLive ==
    /\ Init
    /\ [][LiveNext]_vars
    /\ \A t \in 1..LiveTasks : WF_vars(PipelineStep(t))

\* the events sent for invocation t
EventsFor(t) == {k \in 1..Len(sink) : sink[k].seg = t}

\* invocation t has returned with one of the three outcomes
Terminated(t) ==
    /\ t \in 1..Len(tasks)
    /\ tasks[t].pc = "done"
    /\ \/ /\ tasks[t].outcome \in {"dropped", "empty", "skipped"}
          /\ EventsFor(t) = {}
       \/ /\ tasks[t].outcome = "result"
          /\ Cardinality(EventsFor(t)) = 1
          /\ Cardinality(EventsOf(t, "TRANSLATION_RESULT")) = 1
       \/ /\ tasks[t].outcome = "error"
          /\ Cardinality(EventsFor(t)) = 1
          /\ Cardinality(EventsOf(t, "TRANSLATION_ERROR")) = 1

\* the client calls of invocation t stay within the retry budget
WithinBudget(t) ==
    /\ \A s \in {"transcribe", "translate", "synthesize"} :
          tasks[t].calls[s] <= MAX_RETRIES + 1
    /\ tasks[t].calls.transcribe + tasks[t].calls.translate
          + tasks[t].calls.synthesize <= 3 * (MAX_RETRIES + 1)
    /\ Cardinality(EventsFor(t)) <= 1

\* C32: provided every client call and every backoff wait eventually
\* returns, the pipeline of each segment eventually terminates in exactly
\* one of three outcomes (silent discard, one result event, one error
\* event), after at most 4 invocations of each of the three stage
\* operations (at most 12 client calls).
C32_PipelineTerminates ==
    /\ [](\A t \in 1..Len(tasks) : WithinBudget(t))
    /\ \A t \in 1..LiveTasks :
          (t \in 1..Len(tasks)) ~> [](Terminated(t))

\* an invocation that called transcribe four times, slept three times and
\* ended with its one error event
C32_Witness ==
    \E t \in 1..Len(tasks) :
        /\ Terminated(t)
        /\ tasks[t].outcome = "error"
        /\ tasks[t].calls.transcribe = MAX_RETRIES + 1
        /\ Len(tasks[t].retry.delays) = MAX_RETRIES

\* C37: when startTranslation fails because the audio initialization
\* throws, the requester is answered success: false and the service is
\* left without a capture: isActive false and audioCapture null, so that
\* in every state with no start, stop or restart in progress audioCapture
\* is non-null only while isActive is true.
C37_FailedStartLeavesNoCapture ==
    (ops = <<>> /\ audioCapture # 0) => isActive

\* the AudioCapture instances that are initialized and not cleaned up
LiveCaptures == {i \in 1..Len(captures) : captures[i].audioContext}

\* C35: whatever the interleaving of START_TRANSLATION messages and
\* restarts of the health monitor, at most one segmenter instance is
\* initialized and not yet cleaned up at any time: a start that arrives
\* while an earlier start is loading settings or initializing audio creates
\* no second capture, and no initialized segmenter becomes unreachable
\* without cleanup.
C35_OneLiveSegmenter ==
    /\ Cardinality(LiveCaptures) <= 1
    /\ \A i \in LiveCaptures :
          \/ audioCapture = i
          \/ \E o \in 1..Len(ops) : ops[o].inst = i

----------------------------------------------------------------------------
(* The health monitor: the service with its 30-second health check, start
   and stop messages and a microphone that may be refused. No audio is
   followed here *)

\* START_TRANSLATION and STOP_TRANSLATION messages in one behaviour
HealthMessages == 4
\* refused microphones in one behaviour
HealthFailures == 2
\* health checks in one behaviour
MaxChecks == 2

HealthNext ==
    \/ Handled < HealthMessages /\ StartTranslation
    \/ Handled < HealthMessages /\ StopTranslation
    \/ \E o \in 1..Len(ops) : StartSettingsLoaded(o)
    \/ \E o \in 1..Len(ops) : StartInitResolved(o)
    \/ \E o \in 1..Len(ops), name \in MicErrorNames :
          failures < HealthFailures /\ StartInitRejected(o, name)
    \/ \E o \in 1..Len(ops) : StopClosed(o)
    \/ health.checks < MaxChecks /\ HealthCheck
    \/ \E o \in 1..Len(ops) : CooldownOver(o)

SpecHealth == Init /\ [][HealthNext]_vars

\* the terminal error events emitted so far
TerminalEvents == {k \in 1..Len(sink) : sink[k] = TerminalEvent}

\* the health check is stopping the pipeline to disable it
Disabling == \E o \in 1..Len(ops) : ops[o].by = "disable"

\* C15: after more consecutive audio-device errors than the limit, the next
\* health check stops the pipeline and emits exactly one terminal error
\* event, and no automatic restart is attempted afterwards.
C15_ErrorsDisableAtHealthCheck ==
    health.checked =>
        \/ Disabling
        \/ /\ ~isActive
           /\ Cardinality(TerminalEvents) = 1
           /\ \A o \in 1..Len(ops) : ops[o].by # "restart"

\* the capture the service holds is initialized and capturing, by its own
\* status
Capturing(c) == getStatus(c).isInitialized /\ getStatus(c).isCapturing

\* C16: a health check that finds the service active with a capture that is
\* not initialized or not capturing begins a restart; a restart goes
\* through stop, the one-second wait and start in this order, and when its
\* start succeeds the service is active with an initialized, capturing
\* AudioCapture newer than the one the health check saw.
C16_RestartStopWaitStart ==
    [][/\ ( /\ health'.checks > health.checks
            /\ isActive /\ audioCapture # 0
            /\ ~Capturing(captures[audioCapture]) )
          => \E o \in 1..Len(ops') :
                /\ ops'[o].by = "restart"
                /\ ops'[o].re.old = audioCapture
                /\ ops'[o].re.log \in {<<"stop">>, <<"stop", "wait">>}
       /\ health'.restarts > health.restarts
          => /\ health'.restart.log = <<"stop", "wait", "start">>
             /\ health'.restart.ok
                => /\ isActive'
                   /\ audioCapture' > health'.restart.old
                   /\ Capturing(captures'[audioCapture'])]_vars

\* the last message answered was a STOP_TRANSLATION, answered with success,
\* and no START_TRANSLATION is being handled
UserStopped ==
    /\ responses # <<>>
    /\ responses[Len(responses)].type = "STOP_TRANSLATION"
    /\ responses[Len(responses)].success
    /\ \A o \in 1..Len(ops) :
          ~(ops[o].kind = "start" /\ ops[o].by = "message")

\* C36: once a STOP_TRANSLATION of the user has been acknowledged, the
\* pipeline stays inactive, isActive false and no capture running, until
\* the next explicit START_TRANSLATION, whatever the interleaving with the
\* health checks, a stop during the cool-down of a restart included.
C36_StoppedStaysStopped ==
    UserStopped =>
        /\ ~isActive
        /\ audioCapture # 0 => ~captures[audioCapture].isCapturing

-----------------------------------------------------------------------------
(* ErrorHandler's failure counters on their own: trackError and
   resetErrorCount called in any order on a few keys *)

\* the keys the counters are kept for here
TrackedKeys ==
    ErrorKeys \cup {"api_error-transcription", "network_error-translation"}

\* trackError calls on one key between two resets
MaxTracked == 4

ErrorsInit ==
    /\ captures = <<>>
    /\ hist = <<>>
    /\ nextSample = 0
    /\ lastOp = NoOp
    /\ rw = [run |-> RetryIdle, raised |-> Null]
    /\ fn = NoCall
    /\ health = [NewHealth EXCEPT !.errorCounts = [k \in TrackedKeys |-> 0]]
    /\ storage = DEFAULT_SETTINGS
    /\ CoordInit

\* errorHandler.trackError(errorType, context) is called
TrackError(key) ==
    /\ health.errorCounts[key] < MaxTracked
    /\ health' = [health EXCEPT !.errorCounts = trackError(@, key)]
    /\ fn' = [name |-> "trackError", args |-> <<key>>,
              result |-> trackErrorReturns(health.errorCounts, key)]
    /\ UNCHANGED <<segVars, lastOp, rw, coordVars>>

\* errorHandler.resetErrorCount(errorType, context) is called
ResetErrorCount(key) ==
    /\ health' = [health EXCEPT !.errorCounts = resetErrorCount(@, key)]
    /\ fn' = [name |-> "resetErrorCount", args |-> <<key>>, result |-> TRUE]
    /\ UNCHANGED <<segVars, lastOp, rw, coordVars>>

ErrorsNext ==
    \/ \E key \in TrackedKeys : TrackError(key)
    \/ \E key \in TrackedKeys : ResetErrorCount(key)

SpecErrors == ErrorsInit /\ [][ErrorsNext]_vars

\* C40: after any sequence of trackError and resetErrorCount calls for a
\* key, trackError returns false exactly when isFeatureDisabled for the
\* same key is true right after that call.
C40_TrackErrorAgreesWithDisabled ==
    fn.name = "trackError" =>
        (fn.result = FALSE <=> isFeatureDisabled(health.errorCounts, fn.args[1]))

-----------------------------------------------------------------------------
(* The health monitor with failure counters that move: the service of the
   health monitor above, and trackError called on the service's ErrorHandler
   from outside (no handler of BackgroundService calls it) *)

\* START_TRANSLATION and STOP_TRANSLATION messages in one behaviour
DisableMessages == 2
\* refused microphones in one behaviour
DisableFailures == 1
\* health checks in one behaviour
DisableChecks == 2

DisableNext ==
    \/ Handled < DisableMessages /\ StartTranslation
    \/ Handled < DisableMessages /\ StopTranslation
    \/ \E o \in 1..Len(ops) : StartSettingsLoaded(o)
    \/ \E o \in 1..Len(ops) : StartInitResolved(o)
    \/ \E o \in 1..Len(ops), name \in MicErrorNames :
          failures < DisableFailures /\ StartInitRejected(o, name)
    \/ \E o \in 1..Len(ops) : StopClosed(o)
    \/ health.checks < DisableChecks /\ HealthCheck
    \/ \E o \in 1..Len(ops) : CooldownOver(o)
    \/ \E key \in ErrorKeys : TrackError(key)

SpecDisable == Init /\ [][DisableNext]_vars

\* a health check runs on an active pipeline with a failure counter above
\* the limit
CheckWhileDisabled ==
    /\ health'.checks = health.checks + 1
    /\ isActive /\ audioCapture # 0
    /\ \E key \in ErrorKeys : isFeatureDisabled(health.errorCounts, key)

-----------------------------------------------------------------------------
(* PopupManager (popup/popup.js): the settings form, loaded from the storage
   when the popup opens and written back by the save button. fn holds the
   last thing the popup did and, as its result, the form as it stands;
   volumes are in hundredths *)

\* the source languages and the volumes chosen in the form
PopupSources == {"ar", "fa"}
PopupVolumes == {50, 80}

\* DEFAULT_SETTINGS with the two fields the coordinator does not read
PopupDefaults ==
    [sourceLanguage |-> "ar", targetLanguage |-> "en", mockMode |-> TRUE,
     bidirectionalMode |-> FALSE, autoDetectLanguage |-> TRUE,
     volume |-> 80, micDevice |-> "default"]

\* PopupManager.loadSettings: what the form shows for the settings read;
\* `x || d` gives d for a false, zero, empty or missing x
loadSettings(settings) ==
    [sourceLanguage |-> settings.sourceLanguage,
     targetLanguage |-> settings.targetLanguage,
     bidirectionalMode |-> (settings.bidirectionalMode \/ FALSE),
     autoDetectLanguage |-> (settings.autoDetectLanguage \/ TRUE),
     mockMode |-> (settings.mockMode \/ TRUE),
     volume |-> IF settings.volume = 0 THEN 80 ELSE settings.volume,
     micDevice |-> settings.micDevice]

\* PopupManager.saveSettings: the object built from the form
saveSettings(form) ==
    [sourceLanguage |-> form.sourceLanguage,
     targetLanguage |-> form.targetLanguage,
     bidirectionalMode |-> form.bidirectionalMode,
     autoDetectLanguage |-> form.autoDetectLanguage,
     mockMode |-> form.mockMode,
     volume |-> form.volume,
     micDevice |-> form.micDevice]

PopupInit ==
    /\ captures = <<>>
    /\ hist = <<>>
    /\ nextSample = 0
    /\ lastOp = NoOp
    /\ rw = [run |-> RetryIdle, raised |-> Null]
    /\ fn = NoCall
    /\ health = NewHealth
    /\ storage = PopupDefaults
    /\ CoordInit

PopupOpen == fn.name # "none"

\* the form becomes form
EditForm(form) ==
    /\ fn' = [name |-> "edit", args |-> <<>>, result |-> form]
    /\ UNCHANGED <<segVars, lastOp, rw, health, coordVars>>

\* the popup is opened: new PopupManager() runs loadSettings
LoadSettings ==
    /\ fn' = [name |-> "loadSettings", args |-> <<storage>>,
              result |-> loadSettings(storage)]
    /\ UNCHANGED <<segVars, lastOp, rw, health, coordVars>>

\* a source language is selected
SelectSource(l) ==
    /\ PopupOpen
    /\ EditForm([fn.result EXCEPT !.sourceLanguage = l])

\* the bidirectional checkbox is clicked; checking it checks auto-detect
ToggleBidirectional ==
    /\ PopupOpen
    /\ EditForm([fn.result EXCEPT
                   !.bidirectionalMode = ~@,
                   !.autoDetectLanguage =
                       IF ~fn.result.bidirectionalMode THEN TRUE ELSE @])

\* the auto-detect checkbox is clicked; unchecking it unchecks bidirectional
ToggleAutoDetect ==
    /\ PopupOpen
    /\ EditForm([fn.result EXCEPT
                   !.autoDetectLanguage = ~@,
                   !.bidirectionalMode =
                       IF fn.result.autoDetectLanguage THEN FALSE ELSE @])

\* the mock-mode checkbox is clicked
ToggleMockMode ==
    /\ PopupOpen
    /\ EditForm([fn.result EXCEPT !.mockMode = ~@])

\* the volume slider is moved
SlideVolume(v) ==
    /\ PopupOpen
    /\ EditForm([fn.result EXCEPT !.volume = v])

\* the save button is clicked: saveSettings stores the form
SaveSettings ==
    /\ PopupOpen
    /\ storage' = saveSettings(fn.result)
    /\ fn' = [name |-> "saveSettings", args |-> <<fn.result>>,
              result |-> fn.result]
    /\ UNCHANGED <<segVars, lastOp, rw, health, isActive, currentSettings,
                   audioCapture, tasks, sink, ops, responses, tts, failures>>

PopupNext ==
    \/ LoadSettings
    \/ \E l \in PopupSources : SelectSource(l)
    \/ ToggleBidirectional
    \/ ToggleAutoDetect
    \/ ToggleMockMode
    \/ \E v \in PopupVolumes : SlideVolume(v)
    \/ SaveSettings

SpecPopup == PopupInit /\ [][PopupNext]_vars

\* C39: settings round-trip through the popup: whatever values saveSettings
\* saved, mockMode false and autoDetectLanguage false in particular, a
\* later loadSettings shows exactly the saved values, so that saving again
\* with the form untouched stores the same settings.
C39_SettingsRoundTrip ==
    fn.name = "loadSettings" => saveSettings(fn.result) = fn.args[1]

----------------------------------------------------------------------------
(* Pure functions of the program, called on their own *)

\* the languages a transcription may come back with: the six the extension
\* knows, one it does not know, and the request's own "auto"
DetectedLanguages == {"ar", "fa", "tr", "he", "ku", "en", "fr", "auto"}

\* the configured source and target languages: codes of SUPPORTED_LANGUAGES,
\* 'en' among them, and one code outside it as a target
ConfiguredSources == {"ar", "fa", "tr", "en"}
ConfiguredTargets == {"en", "ar", "fr"}

PureInit ==
    /\ captures = <<>>
    /\ hist = <<>>
    /\ nextSample = 0
    /\ lastOp = NoOp
    /\ rw = [run |-> RetryIdle, raised |-> Null]
    /\ fn = NoCall
    /\ health = NewHealth
    /\ storage = DEFAULT_SETTINGS
    /\ CoordInit

\* determineTranslationDirection(d, text) is called with the configured
\* pair (S, T) in this.currentSettings
CallDirection(d, S, T) ==
    /\ fn.name = "none"
    /\ fn' = [name |-> "determineTranslationDirection",
              args |-> <<d, S, T>>,
              result |-> determineTranslationDirection(d,
                           [DEFAULT_SETTINGS EXCEPT !.sourceLanguage = S,
                                                    !.targetLanguage = T])]
    /\ UNCHANGED <<segVars, lastOp, rw, health, coordVars>>

\* longest text a pure function is called with
MaxTextLen == 2

\* the characters of those texts: H, 1, a blank, a no-break space and the
\* Arabic letter meem
TextAlphabet == {72, 49, 32, 160, 1605}

\* the non-empty texts of at most MaxTextLen characters
PureTexts ==
    UNION {[1..n -> TextAlphabet] : n \in 1..MaxTextLen}

\* translationAPI.needsTranslation(text, targetLanguage) is called
CallNeedsTranslation(t, target) ==
    /\ fn.name = "none"
    /\ fn' = [name |-> "needsTranslation", args |-> <<t, target>>,
              result |-> needsTranslation(t, target)]
    /\ UNCHANGED <<segVars, lastOp, rw, health, coordVars>>

\* the characters of the texts whose language is detected: the Arabic
\* letter meem, the Persian letter che, the Kurdish letter lam with small v,
\* the Hebrew letter shin, the right-to-left mark, the Turkish dotless i,
\* and the ASCII letters I and a
ScriptAlphabet == {1605, 1670, 1717, 1513, 8207, 305, 73, 97}

\* the non-empty texts of at most MaxTextLen of those characters
ScriptTexts ==
    UNION {[1..n -> ScriptAlphabet] : n \in 1..MaxTextLen}

\* whisperAPI.detectLanguage(text) is called
CallDetectLanguage(t) ==
    /\ fn.name = "none"
    /\ fn' = [name |-> "detectLanguage", args |-> <<t>>,
              result |-> detectLanguage(t)]
    /\ UNCHANGED <<segVars, lastOp, rw, health, coordVars>>

\* errorHandler.handleApiError(error, apiName) is called with an error whose
\* message includes exactly the given markers
CallHandleApiError(markers) ==
    /\ fn.name = "none"
    /\ fn' = [name |-> "handleApiError", args |-> <<markers>>,
              result |-> ApiErrorType(markers)]
    /\ UNCHANGED <<segVars, lastOp, rw, health, coordVars>>

\* the statuses the upstream service answers a failing call with
UpstreamStatuses == {401, 429, 500, 503}

\* a transcription request fails and the failure reaches the user: either
\* the upstream service answers the backend with a status, which the
\* backend maps and the client wraps, or the client's fetch rejects
\* (status 0); the error is classified and its message looked up
CallErrorChain(cause, upstream) ==
    /\ fn.name = "none"
    /\ LET status == IF cause = "fetch" THEN 0 ELSE BackendStatus(upstream)
           e == ErrorOf(status, 1)
       IN fn' = [name |-> "errorChain", args |-> <<cause, upstream>>,
                 result |-> [backend |-> status,
                             message |->
                               getUserFriendlyMessage(handleApiError(e))]]
    /\ UNCHANGED <<segVars, lastOp, rw, health, coordVars>>

\* startTranslation runs with a microphone that getUserMedia refuses with
\* the named DOMException: initialize throws, the error is classified and
\* the message of the Error thrown to the caller is looked up
CallStartFailure(name) ==
    /\ fn.name = "none"
    /\ LET type == handleAudioError(InitializeError(name)) IN
       fn' = [name |-> "startFailure", args |-> <<name>>,
              result |-> [type |-> type,
                          message |-> getUserFriendlyMessage(type)]]
    /\ UNCHANGED <<segVars, lastOp, rw, health, coordVars>>

\* the values Math.random() is followed through: k / RandomSteps for k in
\* 0 .. RandomSteps - 1
RandomSteps == 4

\* the delays of the mock clients in milliseconds, for Math.random() =
\* k / RandomSteps
mockTranscriptionDelay(k) == 1000 + (k * 2000) \div RandomSteps
mockTranslationDelay(k) == 800 + (k * 1200) \div RandomSteps
mockAudioDelay(k) == 500 + (k * 1000) \div RandomSteps

\* one segment goes through the three mock clients, each drawing its delay
CallMockDelays(k1, k2, k3) ==
    /\ fn.name = "none"
    /\ fn' = [name |-> "mockDelays", args |-> <<k1, k2, k3>>,
              result |-> [transcription |-> mockTranscriptionDelay(k1),
                          translation |-> mockTranslationDelay(k2),
                          synthesis |-> mockAudioDelay(k3),
                          total |-> mockTranscriptionDelay(k1)
                                      + mockTranslationDelay(k2)
                                      + mockAudioDelay(k3)]]
    /\ UNCHANGED <<segVars, lastOp, rw, health, coordVars>>

PureNext ==
    \/ \E d \in DetectedLanguages, S \in ConfiguredSources,
          T \in ConfiguredTargets : CallDirection(d, S, T)
    \/ \E t \in PureTexts, target \in ConfiguredTargets :
          CallNeedsTranslation(t, target)
    \/ \E t \in ScriptTexts : CallDetectLanguage(t)
    \/ \E markers \in SUBSET ApiMarkers : CallHandleApiError(markers)
    \/ \E upstream \in UpstreamStatuses : CallErrorChain("upstream", upstream)
    \/ CallErrorChain("fetch", 0)
    \/ \E name \in MicErrorNames : CallStartFailure(name)
    \/ \E k1 \in 0..(RandomSteps - 1), k2 \in 0..(RandomSteps - 1),
          k3 \in 0..(RandomSteps - 1) : CallMockDelays(k1, k2, k3)

SpecPure == PureInit /\ [][PureNext]_vars

\* C11: in bidirectional mode the direction resolver returns, for a detected
\* language d and a configured pair (S, T): d to 'en' when d is one of ar,
\* fa, tr, he, ku; 'en' to S when d is 'en'; and S to T otherwise.
C11_DirectionResolved ==
    fn.name = "determineTranslationDirection" =>
        LET d == fn.args[1]
            S == fn.args[2]
            T == fn.args[3]
        IN /\ d \in {"ar", "fa", "tr", "he", "ku"}
                 => fn.result = [source |-> d, target |-> "en"]
           /\ d = "en" => fn.result = [source |-> "en", target |-> S]
           /\ d \notin {"ar", "fa", "tr", "he", "ku", "en"}
                 => fn.result = [source |-> S, target |-> T]

\* detected 'en' with the configured source 'ar' was resolved to en -> ar
C11_Witness ==
    /\ fn.name = "determineTranslationDirection"
    /\ fn.args = <<"en", "ar", "en">>
    /\ fn.result = [source |-> "en", target |-> "ar"]

\* a text of ASCII characters only
AsciiOnly(t) == \A k \in 1..Len(t) : t[k] \in 0..127

\* C20: for a transcript that is not blank, translation is skipped exactly
\* when the target is 'en' and the text is ASCII-only; for any other target
\* it is always performed.
C20_SkippedExactlyForAsciiEnglish ==
    (fn.name = "needsTranslation" /\ ~WhiteOnly(fn.args[1])) =>
        (fn.result = FALSE <=> (fn.args[2] = "en" /\ AsciiOnly(fn.args[1])))

\* t has a character of the Arabic-script ranges, of the Persian class, of
\* the Kurdish class
HasArabicScript(t) == \E k \in 1..Len(t) : IsArabicScript(t[k])
HasPersian(t) == \E k \in 1..Len(t) : IsPersianSpecific(t[k])
HasKurdish(t) == \E k \in 1..Len(t) : IsKurdishSpecific(t[k])

\* C21: for text that contains at least one Arabic-script character,
\* detectLanguage returns 'fa' if the text contains a Persian-only code
\* point, otherwise 'ku' if it contains a Kurdish-specific code point,
\* otherwise 'ar'.
C21_ArabicScriptRefined ==
    (fn.name = "detectLanguage" /\ HasArabicScript(fn.args[1])) =>
        fn.result = IF HasPersian(fn.args[1]) THEN "fa"
                    ELSE IF HasKurdish(fn.args[1]) THEN "ku"
                    ELSE "ar"

\* a character of the Hebrew block, U+0590 to U+05FF
InHebrewBlock(c) == c \in 1424..1535

\* C22: text written in the Hebrew block, with no Arabic-script characters,
\* is detected as 'he', so that in bidirectional mode it is translated
\* towards 'en'.
C22_HebrewDetected ==
    ( /\ fn.name = "detectLanguage"
      /\ \A k \in 1..Len(fn.args[1]) : InHebrewBlock(fn.args[1][k]) ) =>
        /\ fn.result = "he"
        /\ determineTranslationDirection(fn.result, DEFAULT_SETTINGS).target
              = "en"

\* a Turkish letter that ASCII does not have
TurkishDiacritic(c) ==
    c \in {231, 287, 305, 246, 351, 252, 199, 286, 304, 214, 350, 220}

\* C23: for text with no Arabic-script and no Hebrew characters,
\* detectLanguage returns 'tr' exactly when the text contains a
\* Turkish-specific Latin diacritic and 'en' otherwise; every ASCII-only
\* text is detected as 'en'.
C23_TurkishOrEnglish ==
    ( /\ fn.name = "detectLanguage"
      /\ ~HasArabicScript(fn.args[1])
      /\ \A k \in 1..Len(fn.args[1]) : ~InHebrewBlock(fn.args[1][k]) ) =>
        /\ fn.result =
              IF \E k \in 1..Len(fn.args[1]) : TurkishDiacritic(fn.args[1][k])
              THEN "tr" ELSE "en"
        /\ AsciiOnly(fn.args[1]) => fn.result = "en"

\* C25: the error kind determines the user-visible message end to end: an
\* upstream 401 is answered 401 by the backend and shown as the
\* check-your-credentials message, an upstream 429 as the rate-limit
\* message, a failed network call as the network message; a message
\* matching several kinds is classified auth first, then rate limit, then
\* network, then unknown.
C25_KindDeterminesMessage ==
    /\ fn.name = "errorChain" =>
          /\ (fn.args[1] = "upstream" /\ fn.args[2] = 401) =>
                /\ fn.result.backend = 401
                /\ fn.result.message =
                     "Please check your API keys in the extension settings"
          /\ (fn.args[1] = "upstream" /\ fn.args[2] = 429) =>
                /\ fn.result.backend = 429
                /\ fn.result.message =
                     "API rate limit exceeded. Please wait a moment and try again"
          /\ fn.args[1] = "fetch" =>
                fn.result.message =
                  "Network connection failed. Please check your internet connection"
    /\ fn.name = "handleApiError" =>
          LET M == fn.args[1] IN
          /\ M \cap {"401", "Unauthorized"} # {} => fn.result = "AUTH_ERROR"
          /\ ( M \cap {"401", "Unauthorized"} = {}
               /\ M \cap {"429", "rate limit"} # {} )
                => fn.result = "RATE_LIMIT"
          /\ ( M \cap {"401", "Unauthorized", "429", "rate limit"} = {}
               /\ M \cap {"network", "fetch"} # {} )
                => fn.result = "NETWORK_ERROR"
          /\ M = {} => fn.result = "UNKNOWN_ERROR"

\* a message matching the three kinds was classified as an auth error
C25_Witness ==
    /\ fn.name = "handleApiError"
    /\ fn.args[1] = {"401", "429", "fetch"}
    /\ fn.result = "AUTH_ERROR"

\* what startTranslation surfaces when the microphone fails with name
StartFailure(name) ==
    [type |-> handleAudioError(InitializeError(name)),
     message |-> getUserFriendlyMessage(handleAudioError(InitializeError(name)))]

\* C26: when starting fails because of the microphone, permission denial,
\* device not found and device in use are surfaced as three distinct error
\* kinds with distinct user-visible messages.
C26_MicErrorsDistinct ==
    fn.name = "startFailure" =>
        \A other \in MicErrorNames \ {fn.args[1]} :
           /\ fn.result.type # StartFailure(other).type
           /\ fn.result.message # StartFailure(other).message

\* C29: in mock mode the total of the three simulated stage delays for one
\* segment is below 5000 ms, whatever value each delay takes in its range.
C29_MockDelaysBelowFiveSeconds ==
    fn.name = "mockDelays" => fn.result.total < 5000

\* C38: in bidirectional mode, for every detected language and every
\* configured pair with sourceLanguage different from targetLanguage, the
\* resolved direction has a source different from its target.
C38_DirectionNeverSame ==
    (fn.name = "determineTranslationDirection" /\ fn.args[2] # fn.args[3]) =>
        fn.result.source # fn.result.target

====
